---------------------------- MODULE Spec2Model ----------------------------
(***************************************************************************)
(* Policy evaluation and caching engine of better-auth-zanzibar-plugin     *)
(* (src/src/policy-engine.ts): the registry lookup, hasRole, hasPermission,*)
(* the NodeCache memoization (stdTTL 300 s, checkperiod 60 s) and the      *)
(* interleaving of asynchronous role conditions.                           *)
(*                                                                         *)
(* Strings are TLA+ strings and template literals are built with \o, so a  *)
(* cache key is the very string the code builds.  An optional argument is  *)
(* a sequence of length 0 (undefined) or 1 (a string).                     *)
(***************************************************************************)
EXTENDS Integers, Sequences, FiniteSets, TLC

VARIABLES
    policyEngineInstance, \* the module's engine: "null" until initializePolicyEngine
    policies,       \* PolicyEngine.policies: the registry given to the constructor
    invocations,    \* every call of a has.ts function or of an endpoint, in start order
    cachingEnabled, \* PolicyEngine.cachingEnabled, fixed by the constructor
    cache,          \* PolicyEngine.cache: key -> [v, t] (+ history: by, at)
    cacheReads,     \* history: number of cache.get calls made so far
    now,            \* Date.now(), in seconds
    facts,          \* the relationship facts the role conditions read
    requests,       \* the calls a client of this engine may make
    calls,          \* every hasRole/hasPermission call made, in start order
    batches,        \* every hasMultipleRoles/hasMultiplePermissions/hasPermissions call
    retired         \* the engines initializePolicyEngine has replaced, oldest first

vars == <<policyEngineInstance, policies, invocations, cachingEnabled, cache, cacheReads, now, facts, requests, calls, batches, retired>>

---------------------------------------------------------------------------
(* Bounds of the model *)

\* Total number of hasRole/hasPermission calls started in one behaviour.
MaxCalls == 2

\* Number of aggregate calls started in one behaviour.
MaxAggregates == 1

\* Clock readings explored past the expiry of an entry stored at time 0.
Horizon == 1

\* Number of engines replaced by initializePolicyEngine in one behaviour.
MaxRetired == 1

\* Number of has.ts function calls and endpoint requests in one behaviour.
MaxInvocations == 2

\* Number of ZanzibarPlugin calls in one behaviour.
MaxPlugins == 2

\* Role checks nested in one another that are followed: the caller's check
\* is at depth 1, the check its condition makes at depth 2, and so on.
MaxDepth == 4

(* Program constants *)

\* new NodeCache({ stdTTL: 300, ... })
stdTTL == 300

\* new NodeCache({ ..., checkperiod: 60 })
checkperiod == 60

---------------------------------------------------------------------------
(* Values *)

\* An omitted argument (JavaScript undefined) and a string argument.
Undefined == <<>>
Str(s) == <<s>>

\* Variant: undefined rendered as the empty string.
TemplateStrBlank(x) == IF x = Undefined THEN "" ELSE x[1]

\* `${x}` in a template literal: undefined is rendered as "undefined".
TemplateStr(x) == IF x = Undefined THEN "undefined" ELSE x[1]

\* Array.prototype.includes
Includes(seq, x) == \E i \in 1..Len(seq) : seq[i] = x

---------------------------------------------------------------------------
(* The registry (Policies): resource type -> { actions, roles }.  The role *)
(* "owner" also lists "purge", an action the resource does not declare.    *)

Policies ==
    [ project |->
        [ actions |-> <<"read", "write">>,
          roles   |-> << [name |-> "owner",  actions |-> <<"read", "write", "purge">>],
                         [name |-> "editor", actions |-> <<"write">>],
                         [name |-> "viewer", actions |-> <<"read">>] >> ] ]

\* Property names every plain JavaScript object inherits from Object.prototype.
ObjectPrototypeKeys == {"constructor", "toString", "hasOwnProperty", "__proto__"}

\* Variant: looking up an unregistered resource type registers it, empty.
PoliciesGetOrCreate(p, resourceTypes) ==
    [t \in DOMAIN p \cup (resourceTypes \ ObjectPrototypeKeys) |->
        IF t \in DOMAIN p THEN p[t] ELSE [actions |-> <<>>, roles |-> <<>>]]

\* const resource = this.policies[resourceType]: a property read, the only
\* use the engine makes of its registry; the registry after it is as before.
PoliciesAfterGet(p, resourceTypes) == p

\* What this.policies[resourceType] evaluates to.
NoResource == [kind |-> "undefined"]
InheritedValue == [kind |-> "inherited"]
PoliciesGet(resourceType) ==
    IF resourceType \in DOMAIN policies
    THEN [kind |-> "resource", def |-> policies[resourceType]]
    ELSE IF resourceType \in ObjectPrototypeKeys
         THEN InheritedValue
         ELSE NoResource

\* resource.roles.find((r) => r.name === roleName): the index, 0 if none.
FindRole(roles, roleName) ==
    IF \E i \in 1..Len(roles) : roles[i].name = roleName
    THEN CHOOSE i \in 1..Len(roles) :
            /\ roles[i].name = roleName
            /\ \A j \in 1..(i-1) : roles[j].name # roleName
    ELSE 0

\* Variant: the scan takes every role, whether or not it grants the action.
NextRoleIgnoringActions(roles, action, from) ==
    IF from <= Len(roles) THEN from ELSE 0

\* for (const role of resource.roles) { if (!role.actions.includes(action)) continue; ...
\* the first role at index >= from that grants the action, 0 if none.
NextRole(roles, action, from) ==
    IF \E i \in from..Len(roles) : Includes(roles[i].actions, action)
    THEN CHOOSE i \in from..Len(roles) :
            /\ Includes(roles[i].actions, action)
            /\ \A j \in from..(i-1) : ~Includes(roles[j].actions, action)
    ELSE 0

\* role.condition(userId, resourceId): the caller-supplied predicate.  It
\* answers from relationships the engine does not hold, so its boolean is
\* any boolean; facts keeps the answers given since the relationships last
\* changed, and asking again about an unchanged relationship gives the same
\* answer.
Fact(resourceType, roleName, userId, resourceId) ==
    <<resourceType, roleName, userId, resourceId>>
\* Variant: the condition answers without regard to what it answered before.
AnyAnswer(resourceType, roleName, userId, resourceId) == BOOLEAN
Condition(resourceType, roleName, userId, resourceId) ==
    LET f == Fact(resourceType, roleName, userId, resourceId)
    IN IF f \in DOMAIN facts THEN {facts[f]} ELSE BOOLEAN

\* The quick start's registry: projects hold folders, folders hold files.
QuickStartPolicies ==
    [ project |->
        [ actions |-> <<"delete", "read", "edit", "share">>,
          roles   |-> << [name |-> "owner",  actions |-> <<"delete", "read", "edit", "share">>],
                         [name |-> "editor", actions |-> <<"read", "edit">>],
                         [name |-> "viewer", actions |-> <<"read">>] >> ],
      folder |->
        [ actions |-> <<"delete", "read", "edit", "share">>,
          roles   |-> << [name |-> "owner",  actions |-> <<"delete", "read", "edit", "share">>],
                         [name |-> "viewer", actions |-> <<"read">>],
                         [name |-> "sharer", actions |-> <<"read", "share">>] >> ],
      file |->
        [ actions |-> <<"delete", "read", "edit", "share">>,
          roles   |-> << [name |-> "owner",  actions |-> <<"delete", "read", "edit", "share">>],
                         [name |-> "viewer", actions |-> <<"read">>],
                         [name |-> "sharer", actions |-> <<"read", "share">>] >> ] ]

\* The application's store of files and folders, which the quick start's
\* conditions read: (await getFileById(resourceId))?.folderId and
\* (await getFolderById(resourceId))?.projectId, undefined for an id the
\* store does not hold.
Files == [f1 |-> "d1"]
Folders == [d1 |-> "p1"]
getFileById(resourceId) ==
    IF resourceId # Undefined /\ resourceId[1] \in DOMAIN Files
    THEN Str(Files[resourceId[1]]) ELSE Undefined
getFolderById(resourceId) ==
    IF resourceId # Undefined /\ resourceId[1] \in DOMAIN Folders
    THEN Str(Folders[resourceId[1]]) ELSE Undefined

\* The registry in force once the application has added the role "auditor",
\* which may read, between "owner" and "editor".
RevisedPolicies ==
    [ project |->
        [ actions |-> <<"read", "write">>,
          roles   |-> << [name |-> "owner",   actions |-> <<"read", "write", "purge">>],
                         [name |-> "auditor", actions |-> <<"read">>],
                         [name |-> "editor",  actions |-> <<"write">>],
                         [name |-> "viewer",  actions |-> <<"read">>] >> ] ]

\* A registry whose two roles are configured in a cycle: the condition of
\* "a" asks for role "b" with the arguments it was given, and the condition
\* of "b" asks for role "a".
CyclicPolicies ==
    [ ring |->
        [ actions |-> <<"read">>,
          roles   |-> << [name |-> "a", actions |-> <<"read">>],
                         [name |-> "b", actions |-> <<"read">>] >> ] ]

\* The conditions of folder and file roles are not predicates of their own:
\* each looks the resource up and asks for a role on the resource above it.
\* So do the conditions of the cyclic registry, which ask one another.
Delegates(resourceType) == resourceType \in {"folder", "file", "ring"}

\* Variant: every role of a folder or file asks for the viewer role above.
AskViewerAbove(resourceType, roleName) ==
    [resourceType |-> IF resourceType = "folder" THEN "project" ELSE "folder",
     roleName |-> "viewer"]

\* The role a folder or file condition asks for: folder.owner and
\* folder.sharer ask project owner, folder.viewer project viewer, file.owner
\* folder owner, file.viewer folder viewer, file.sharer project owner.
AskedAbove(resourceType, roleName) ==
    IF resourceType = "ring"
    THEN [resourceType |-> "ring", roleName |-> IF roleName = "a" THEN "b" ELSE "a"]
    ELSE IF resourceType = "folder"
    THEN [resourceType |-> "project",
          roleName |-> IF roleName = "viewer" THEN "viewer" ELSE "owner"]
    ELSE IF roleName = "sharer"
         THEN [resourceType |-> "project", roleName |-> "owner"]
         ELSE [resourceType |-> "folder", roleName |-> roleName]

\* The id the condition asks about: folder.projectId, file.folderId, and
\* file.folder.projectId for file.sharer; undefined when a lookup finds nothing.
IdAbove(resourceType, roleName, resourceId) ==
    IF resourceType = "ring"
    THEN resourceId
    ELSE IF resourceType = "folder"
    THEN getFolderById(resourceId)
    ELSE IF roleName = "sharer"
         THEN getFolderById(getFileById(resourceId))
         ELSE getFileById(resourceId)

\* acRoles.hasRole(resourceType, roleName, userId, resourceId): the engine's
\* role check called from a condition, its decision as a boolean.
acRoles_hasRole(res) == res.allowed

---------------------------------------------------------------------------
(* Results and their templated messages *)

Result(allowed, message) == [allowed |-> allowed, message |-> message]
NoResult == Result(FALSE, "")

UnknownResourceMsg(resourceType) == "Unknown resource type '" \o resourceType \o "'"
UnknownRoleMsg(roleName, resourceType) ==
    "Unknown role '" \o roleName \o "' for resource '" \o resourceType \o "'"
UnknownActionMsg(action, resourceType) ==
    "Unknown action '" \o action \o "' for resource '" \o resourceType \o "'"
\* Variant: the message does not follow the decision.
RoleMsgAlwaysAllowed(allowed, roleName, resourceType) ==
    "Role '" \o roleName \o "' allowed on " \o resourceType
RoleMsg(allowed, roleName, resourceType) ==
    IF allowed THEN "Role '" \o roleName \o "' allowed on " \o resourceType
               ELSE "Role '" \o roleName \o "' denied on " \o resourceType
ActionMsg(allowed, action, resourceType) ==
    IF allowed THEN "Action '" \o action \o "' allowed on " \o resourceType
               ELSE "Action '" \o action \o "' denied on " \o resourceType

---------------------------------------------------------------------------
(* Cache keys *)

\* `hasRole:${resourceType}:${roleName}:${userId}:${resourceId}`
hasRoleKey(resourceType, roleName, userId, resourceId) ==
    "hasRole:" \o resourceType \o ":" \o roleName \o ":" \o userId
               \o ":" \o TemplateStr(resourceId)

\* `hasPermission:${userId}:${action}:${resourceType}:${resourceId}`
hasPermissionKey(userId, action, resourceType, resourceId) ==
    "hasPermission:" \o userId \o ":" \o action \o ":" \o resourceType
                     \o ":" \o TemplateStr(resourceId)

---------------------------------------------------------------------------
(* The cache: NodeCache({ stdTTL: 300, checkperiod: 60 }) *)

EmptyCache == [k \in {} |-> NoResult]

\* Variant: the cache is used whatever the flag says.
UseCacheAlways == TRUE

\* if (this.cachingEnabled)
UseCache == cachingEnabled

\* this, in a call that may have begun on an engine since replaced: the
\* call's engine is the global one while no later engine has been built.
Generation == Len(retired) + 1
Current(c) == c.engine = Generation
\* this.policies, this.cachingEnabled and this.cache of the engine of call c.
PoliciesOf(c) == IF Current(c) THEN policies ELSE retired[c.engine].policies
UseCacheOf(c) == IF Current(c) THEN UseCache ELSE retired[c.engine].cachingEnabled
CacheOf(c) == IF Current(c) THEN cache ELSE retired[c.engine].cache

\* Variant: entries never expire.
NeverExpired(entry, time) == FALSE

\* NodeCache._check: an entry is expired once its t lies before Date.now().
Expired(entry, time) == entry.t < time

\* cache.get(key) returns a value (not undefined).
CacheLive(c, key) == key \in DOMAIN c /\ ~Expired(c[key], now)

\* Variant: a read deletes every expired entry, not only the one it asked for.
GetDeletesAllExpired(c, key) ==
    [k \in {x \in DOMAIN c : ~(c[x].t < now)} |-> c[k]]

\* The cache after cache.get(key): an expired entry is deleted by the read.
CacheAfterGet(c, key) ==
    IF key \in DOMAIN c /\ Expired(c[key], now)
    THEN [k \in DOMAIN c \ {key} |-> c[k]]
    ELSE c

\* cache.set(key, result): no ttl given, so stdTTL applies.  by and at are
\* history: the request that stored the entry and when.
CacheSet(c, key, result, req) ==
    (key :> [v |-> result, t |-> now + stdTTL, by |-> req, at |-> now]) @@ c

\* NodeCache._checkData: the periodic sweep deletes every expired entry.
Swept(c) == [k \in {x \in DOMAIN c : ~Expired(c[x], now)} |-> c[k]]

---------------------------------------------------------------------------
(* Calls *)

Req(op, resourceType, name, userId, resourceId) ==
    [op |-> op, resourceType |-> resourceType, name |-> name,
     userId |-> userId, resourceId |-> resourceId]

KeyOf(req) ==
    IF req.op = "hasRole"
    THEN hasRoleKey(req.resourceType, req.name, req.userId, req.resourceId)
    ELSE hasPermissionKey(req.userId, req.name, req.resourceType, req.resourceId)

\* A call that has just been entered.  st: "await" (suspended on a condition),
\* "done" (returned res), "raised" (threw).  i: index of the awaited role.
\* The other fields are history: hit (answered from the cache), hitBy and
\* hitAge (who stored the entry served, and how long before), lookedUp (the
\* registry was consulted), trace (the conditions invoked and what each
\* returned), stored and storedAt (the result was written to the cache, and
\* when), t0 (when the call read the cache) and seen (the calls that had ended
\* when this one began).  waitsFor: the role check the awaited condition has
\* made and is waiting for, 0 if none.
NewCall(req, cs) ==
    [req |-> req, key |-> KeyOf(req), st |-> "await", i |-> 0, waitsFor |-> 0,
     hit |-> FALSE, hitBy |-> req, lookedUp |-> FALSE,
     trace |-> <<>>, res |-> NoResult, stored |-> FALSE,
     t0 |-> IF UseCache THEN now ELSE 0, hitAge |-> 0, storedAt |-> 0,
     seen |-> {j \in 1..Len(cs) : cs[j].st # "await"}, engine |-> Generation]

Pending(roleName) == [role |-> roleName, out |-> "pending"]
BoolStr(b) == IF b THEN "true" ELSE "false"
SetLastOut(trace, out) == [trace EXCEPT ![Len(trace)].out = out]

\* return cached
ReturnCached(c, entry) ==
    [c EXCEPT !.st = "done", !.hit = TRUE, !.hitBy = entry.by,
              !.hitAge = now - entry.at, !.res = entry.v]

\* if (this.cachingEnabled) this.cache.set(cacheKey, result); return result;
Return(c, result) ==
    [c EXCEPT !.st = "done", !.res = result, !.stored = UseCacheOf(c),
              !.storedAt = IF UseCacheOf(c) THEN now ELSE 0]
\* Variant: only a grant is stored.
CacheOnlyGrants(c, cacheIn, result) ==
    IF UseCacheOf(c) /\ result.allowed THEN CacheSet(cacheIn, c.key, result, c.req) ELSE cacheIn
\* Variant: the result is returned without being stored.
CacheNotWritten(c, cacheIn, result) == cacheIn
CacheAfterReturn(c, cacheIn, result) ==
    IF UseCacheOf(c) THEN CacheSet(cacheIn, c.key, result, c.req) ELSE cacheIn

\* const allowed = await role.condition(userId, resourceId): the call suspends.
Await(c, idx, roles) ==
    [c EXCEPT !.st = "await", !.i = idx, !.trace = Append(@, Pending(roles[idx].name))]

\* hasRole from its entry to its first suspension or return, with the cache
\* as cacheIn and cs the calls made before: <<the call, the cache afterwards>>.
HasRoleEnter(req, cacheIn, cs) ==
    LET c0 == NewCall(req, cs)
        cached == UseCache /\ CacheLive(cacheIn, c0.key)
        cache1 == IF UseCache THEN CacheAfterGet(cacheIn, c0.key) ELSE cacheIn
        resource == PoliciesGet(req.resourceType)
        c1 == [c0 EXCEPT !.lookedUp = TRUE]
    IN  IF cached
        THEN <<ReturnCached(c0, cacheIn[c0.key]), cache1>>
        ELSE IF resource.kind = "undefined"
        THEN LET result == Result(FALSE, UnknownResourceMsg(req.resourceType))
             IN <<Return(c1, result), CacheAfterReturn(c1, cache1, result)>>
        ELSE IF resource.kind = "inherited"
        THEN \* resource.roles is undefined: resource.roles.find throws a TypeError
             <<[c1 EXCEPT !.st = "raised"], cache1>>
        ELSE LET idx == FindRole(resource.def.roles, req.name)
             IN IF idx = 0
                THEN LET result == Result(FALSE, UnknownRoleMsg(req.name, req.resourceType))
                     IN <<Return(c1, result), CacheAfterReturn(c1, cache1, result)>>
                ELSE <<Await(c1, idx, resource.def.roles), cache1>>

\* hasPermission from its entry to its first suspension or return.
HasPermissionEnter(req, cacheIn, cs) ==
    LET c0 == NewCall(req, cs)
        cached == UseCache /\ CacheLive(cacheIn, c0.key)
        cache1 == IF UseCache THEN CacheAfterGet(cacheIn, c0.key) ELSE cacheIn
        resource == PoliciesGet(req.resourceType)
        c1 == [c0 EXCEPT !.lookedUp = TRUE]
    IN  IF cached
        THEN <<ReturnCached(c0, cacheIn[c0.key]), cache1>>
        ELSE IF resource.kind = "undefined"
        THEN LET result == Result(FALSE, UnknownResourceMsg(req.resourceType))
             IN <<Return(c1, result), CacheAfterReturn(c1, cache1, result)>>
        ELSE IF resource.kind = "inherited"
        THEN \* resource.actions is undefined: resource.actions.includes throws
             <<[c1 EXCEPT !.st = "raised"], cache1>>
        ELSE IF ~Includes(resource.def.actions, req.name)
        THEN LET result == Result(FALSE, UnknownActionMsg(req.name, req.resourceType))
             IN <<Return(c1, result), CacheAfterReturn(c1, cache1, result)>>
        ELSE LET idx == NextRole(resource.def.roles, req.name, 1)
             IN IF idx = 0
                THEN LET result == Result(FALSE, ActionMsg(FALSE, req.name, req.resourceType))
                     IN <<Return(c1, result), CacheAfterReturn(c1, cache1, result)>>
                ELSE <<Await(c1, idx, resource.def.roles), cache1>>

\* hasRole resumed with the condition's boolean.
HasRoleResume(c, allowed) ==
    LET c1 == [c EXCEPT !.trace = SetLastOut(@, BoolStr(allowed))]
        result == Result(allowed, RoleMsg(allowed, c.req.name, c.req.resourceType))
    IN <<Return(c1, result), CacheAfterReturn(c1, CacheOf(c), result)>>

\* Variant: the scan goes on after a condition returned true.
ScanNeverStops(allowed) == FALSE

\* if (allowed) { ... return result; }: the scan ends at the first true.
ScanStops(allowed) == allowed

\* hasPermission resumed with the condition's boolean: return on true, else
\* go on to the next role that grants the action, or deny after the last.
HasPermissionResume(c, allowed) ==
    LET c1 == [c EXCEPT !.trace = SetLastOut(@, BoolStr(allowed))]
        roles == PoliciesOf(c)[c.req.resourceType].roles
        idx == NextRole(roles, c.req.name, c.i + 1)
    IN  IF ScanStops(allowed)
        THEN LET result == Result(TRUE, ActionMsg(TRUE, c.req.name, c.req.resourceType))
             IN <<Return(c1, result), CacheAfterReturn(c1, CacheOf(c), result)>>
        ELSE IF idx = 0
        THEN LET result == Result(FALSE, ActionMsg(FALSE, c.req.name, c.req.resourceType))
             IN <<Return(c1, result), CacheAfterReturn(c1, CacheOf(c), result)>>
        ELSE <<Await(c1, idx, roles), CacheOf(c)>>

---------------------------------------------------------------------------
(* Aggregate calls: hasMultipleRoles, hasMultiplePermissions, hasPermissions. *)
(* A Record<string, string[]> argument is the sequence of its entries in      *)
(* Object.entries order, [resourceType, items]; the checks argument of        *)
(* hasPermissions is the sequence of its entries [key, resourceType, action,  *)
(* actions, resourceId], action being optional and an omitted actions being   *)
(* the empty sequence (both fail `actions && actions.length > 0`).            *)

RECURSIVE Concat(_)
Concat(ss) == IF ss = <<>> THEN <<>> ELSE Head(ss) \o Concat(Tail(ss))

\* Array.prototype.join(", ")
RECURSIVE Join(_)
Join(strs) ==
    IF strs = <<>> THEN ""
    ELSE IF Len(strs) = 1 THEN strs[1]
    ELSE strs[1] \o ", " \o Join(Tail(strs))

\* The own keys of a plain object after obj[key] = value for each key: the
\* name "__proto__" is the prototype accessor every plain object inherits, so
\* assigning to it adds no property (an object value becomes the prototype, a
\* boolean is dropped).
OwnKeys(keys) == keys \ {"__proto__"}

\* Variant: only an omitted action is falsy.
Given(x) == x # Undefined

\* if (action): undefined and the empty string are falsy.
Truthy(x) == x # Undefined /\ x # Str("")

\* The checks one entry of an aggregate call issues, in the order it issues them.
ChecksOfGroup(op, userId, resourceId, g) ==
    [i \in 1..Len(g.items) |-> Req(op, g.resourceType, g.items[i], userId, resourceId)]
ChecksOfSpec(userId, e) ==
    IF Truthy(e.action)
    THEN <<Req("hasPermission", e.resourceType, e.action[1], userId, e.resourceId)>>
    ELSE [i \in 1..Len(e.actions) |->
            Req("hasPermission", e.resourceType, e.actions[i], userId, e.resourceId)]

\* checks.push(this.hasRole(...).then(...)) in a loop, actions.map((act) =>
\* this.hasPermission(...)): every check is called in turn and runs to its
\* first await before the next is called.  <<the calls, the cache afterwards>>.
RECURSIVE StartAll(_, _, _)
StartAll(reqs, cacheIn, cs) ==
    IF reqs = <<>>
    THEN <<cs, cacheIn>>
    ELSE LET req == Head(reqs)
             out == IF req.op = "hasRole" THEN HasRoleEnter(req, cacheIn, cs)
                                          ELSE HasPermissionEnter(req, cacheIn, cs)
         IN StartAll(Tail(reqs), out[2], Append(cs, out[1]))

\* The positions in calls of the checks of each entry, the first check being
\* call number first + 1.
RECURSIVE ChildIds(_, _)
ChildIds(sizes, first) ==
    IF sizes = <<>>
    THEN <<>>
    ELSE <<[i \in 1..Head(sizes) |-> first + i]>>
            \o ChildIds(Tail(sizes), first + Head(sizes))

\* An aggregate call suspended on Promise.all.  children: per entry of the
\* input, the positions in calls of its checks.
NewBatch(op, userId, input, children) ==
    [op |-> op, userId |-> userId, input |-> input, children |-> children,
     st |-> "await", res |-> <<>>, left |-> {}]

\* Variant: the flag follows the last check of the list only.
AllowedOfLast(list) == list = <<>> \/ list[Len(list)].allowed

\* Variant: an aggregate that issued no check is denied.
AllowedByACheck(list) == list # <<>> /\ \A k \in 1..Len(list) : list[k].allowed

\* let allAllowed = true; for (...) { if (!allowed) allAllowed = false; }
AllAllowed(list) == \A k \in 1..Len(list) : list[k].allowed

\* Variant: only the first denied check is pushed.
DeniedFirstOnly(list) ==
    LET isDenied(x) == ~x.allowed
        all == SelectSeq(list, isDenied)
    IN IF all = <<>> THEN <<>> ELSE <<all[1]>>

\* for (...) { if (!allowed) deniedRoles.push(...) }: the denied checks, in
\* list order.
Denied(list) ==
    LET isDenied(x) == ~x.allowed
    IN SelectSeq(list, isDenied)

\* Variant: a spec without action or actions is let through.
NoActionAllowed == [allowed |-> TRUE, message |-> "No action or actions specified"]

\* return { key, result: { allowed: false, message: "No action or actions specified" } }
NoActionResult == [allowed |-> FALSE, message |-> "No action or actions specified"]

\* The last value assigned under a name: results[resourceType][item] = allowed
\* in list order.
LastAllowed(list, resourceType, item) ==
    LET hits == {k \in 1..Len(list) :
                    list[k].resourceType = resourceType /\ list[k].item = item}
    IN list[CHOOSE k \in hits : \A j \in hits : j <= k].allowed

\* hasMultipleRoles / hasMultiplePermissions after Promise.all: the aggregate.
MultiResult(b, cs, granted, deniedPrefix) ==
    LET ids == Concat(b.children)
        list == [k \in 1..Len(ids) |->
                    [resourceType |-> cs[ids[k]].req.resourceType,
                     item |-> cs[ids[k]].req.name,
                     allowed |-> cs[ids[k]].res.allowed]]
        denied == Denied(list)
        allAllowed == AllAllowed(list)
        types == OwnKeys({b.input[g].resourceType : g \in 1..Len(b.input)})
        itemsOf(t) == OwnKeys({list[k].item :
                                 k \in {j \in 1..Len(list) : list[j].resourceType = t}})
    IN [allowed |-> allAllowed,
        message |-> IF allAllowed
                    THEN granted
                    ELSE deniedPrefix \o
                         Join([k \in 1..Len(denied) |->
                                 denied[k].resourceType \o ":" \o denied[k].item]),
        results |-> [t \in types |-> [n \in itemsOf(t) |-> LastAllowed(list, t, n)]]]

\* hasPermissions: the result of one named check.
NamedResult(e, ids, cs) ==
    IF Truthy(e.action)
    THEN [allowed |-> cs[ids[1]].res.allowed, message |-> cs[ids[1]].res.message]
    ELSE IF Len(e.actions) > 0
    THEN LET list == [k \in 1..Len(ids) |->
                         [resourceType |-> e.resourceType, item |-> e.actions[k],
                          allowed |-> cs[ids[k]].res.allowed]]
             denied == Denied(list)
             allAllowed == AllAllowed(list)
         IN [allowed |-> allAllowed,
             message |-> IF allAllowed
                         THEN "All permissions granted for " \o e.resourceType
                         ELSE "Some permissions denied for " \o e.resourceType \o ": "
                                 \o Join([k \in 1..Len(denied) |-> denied[k].item]),
             results |-> [a \in OwnKeys({e.actions[k] : k \in 1..Len(e.actions)}) |->
                             LastAllowed(list, e.resourceType, a)]]
    ELSE NoActionResult

\* hasPermissions after the outer Promise.all: finalResult[key] = result.
NamedResults(b, cs) ==
    [key \in OwnKeys({b.input[g].key : g \in 1..Len(b.input)}) |->
        LET g == CHOOSE h \in 1..Len(b.input) : b.input[h].key = key
        IN NamedResult(b.input[g], b.children[g], cs)]

\* What the aggregate call returns once every check has returned.
AggregateResult(b, cs) ==
    IF b.op = "hasMultipleRoles"
    THEN MultiResult(b, cs, "All roles granted", "Some roles denied: ")
    ELSE IF b.op = "hasMultiplePermissions"
    THEN MultiResult(b, cs, "All permissions granted", "Some permissions denied: ")
    ELSE NamedResults(b, cs)

---------------------------------------------------------------------------
(* Actions *)

\* The calls made by the engine's callers, as opposed to the role checks made
\* by conditions while they are being evaluated.
Issued == {n \in 1..Len(calls) : \A m \in 1..Len(calls) : calls[m].waitsFor # n}

\* this.cache of the engine of call c becomes cacheOut; no other engine's
\* cache is touched.
WriteCache(c, cacheOut) ==
    IF Current(c)
    THEN cache' = cacheOut /\ UNCHANGED retired
    ELSE retired' = [retired EXCEPT ![c.engine].cache = cacheOut] /\ UNCHANGED cache

\* A client calls engine.hasRole(resourceType, roleName, userId, resourceId).
HasRole ==
    /\ Cardinality(Issued) < MaxCalls
    /\ \E req \in {q \in requests : q.op = "hasRole"} :
         LET out == HasRoleEnter(req, cache, calls)
         IN /\ calls' = Append(calls, out[1])
            /\ cache' = out[2]
            /\ policies' = PoliciesAfterGet(policies, {req.resourceType})
    /\ cacheReads' = cacheReads + (IF UseCache THEN 1 ELSE 0)
    /\ UNCHANGED <<policyEngineInstance, invocations, cachingEnabled, now, facts, requests, retired, batches>>

\* A client calls engine.hasPermission(userId, action, resourceType, resourceId).
HasPermission ==
    /\ Len(calls) < MaxCalls
    /\ \E req \in {q \in requests : q.op = "hasPermission"} :
         LET out == HasPermissionEnter(req, cache, calls)
         IN /\ calls' = Append(calls, out[1])
            /\ cache' = out[2]
            /\ policies' = PoliciesAfterGet(policies, {req.resourceType})
    /\ cacheReads' = cacheReads + (IF UseCache THEN 1 ELSE 0)
    /\ UNCHANGED <<policyEngineInstance, invocations, cachingEnabled, now, facts, requests, retired, batches>>

\* A client calls engine.hasMultipleRoles(userId, roles, resourceId) or
\* engine.hasMultiplePermissions(userId, permissions, resourceId): every check
\* is started, then the call suspends on Promise.all.
StartMulti(name, op) ==
    /\ Len(batches) < MaxAggregates
    /\ \E a \in {q \in requests : q.op = name} :
         LET groups == [g \in 1..Len(a.input) |->
                          ChecksOfGroup(op, a.userId, a.resourceId, a.input[g])]
             reqs == Concat(groups)
             out == StartAll(reqs, cache, calls)
         IN /\ Len(calls) + Len(reqs) <= MaxCalls
            /\ calls' = out[1]
            /\ cache' = out[2]
            /\ policies' = PoliciesAfterGet(policies,
                              {reqs[k].resourceType : k \in 1..Len(reqs)})
            /\ cacheReads' = cacheReads + (IF UseCache THEN Len(reqs) ELSE 0)
            /\ batches' = Append(batches,
                  NewBatch(name, a.userId, a.input,
                           ChildIds([g \in 1..Len(groups) |-> Len(groups[g])], Len(calls))))
    /\ UNCHANGED <<policyEngineInstance, invocations, cachingEnabled, now, facts, requests, retired>>

HasMultipleRoles == StartMulti("hasMultipleRoles", "hasRole")

HasMultiplePermissions == StartMulti("hasMultiplePermissions", "hasPermission")

\* A client calls engine.hasPermissions(userId, checks).
HasPermissions ==
    /\ Len(batches) < MaxAggregates
    /\ \E a \in {q \in requests : q.op = "hasPermissions"} :
         LET groups == [g \in 1..Len(a.input) |-> ChecksOfSpec(a.userId, a.input[g])]
             reqs == Concat(groups)
             out == StartAll(reqs, cache, calls)
         IN /\ Len(calls) + Len(reqs) <= MaxCalls
            /\ calls' = out[1]
            /\ cache' = out[2]
            /\ policies' = PoliciesAfterGet(policies,
                              {reqs[k].resourceType : k \in 1..Len(reqs)})
            /\ cacheReads' = cacheReads + (IF UseCache THEN Len(reqs) ELSE 0)
            /\ batches' = Append(batches,
                  NewBatch("hasPermissions", a.userId, a.input,
                           ChildIds([g \in 1..Len(groups) |-> Len(groups[g])], Len(calls))))
    /\ UNCHANGED <<policyEngineInstance, invocations, cachingEnabled, now, facts, requests, retired>>

\* Variant: the aggregate settles with the first check that returns.
PromiseRace(ids, cs) == \E k \in 1..Len(ids) : cs[ids[k]].st = "done"

\* await Promise.all(checks) resolves: every promise of the array is fulfilled.
PromiseAll(ids, cs) == \A k \in 1..Len(ids) : cs[ids[k]].st = "done"

\* Variant: hasPermissions returns once one of its entries has its result.
AnyEntrySettled(b, cs) == \E g \in 1..Len(b.children) : PromiseAll(b.children[g], cs)

\* hasPermissions: await Promise.all(promises) resolves when the callback of
\* every entry has returned, which it does after its own await of
\* this.hasPermission or of Promise.all(permChecks).
EveryEntrySettled(b, cs) == \A g \in 1..Len(b.children) : PromiseAll(b.children[g], cs)

\* Promise.all resolves once every check of the batch has returned, and the
\* aggregate call returns.
AggregateReturns ==
    /\ \E n \in 1..Len(batches) :
         LET b == batches[n]
             ids == Concat(b.children)
         IN /\ b.st = "await"
            /\ IF b.op = "hasPermissions" THEN EveryEntrySettled(b, calls)
                                          ELSE PromiseAll(ids, calls)
            /\ batches' = [batches EXCEPT ![n] =
                             [b EXCEPT !.st = "done", !.res = AggregateResult(b, calls)]]
    /\ UNCHANGED <<policyEngineInstance, policies, invocations, cachingEnabled, cache, cacheReads, now, facts, requests, retired, calls>>

\* Promise.all rejects as soon as one check of the batch has failed, and the
\* aggregate call fails; the other checks go on.
AggregateRaises ==
    /\ \E n \in 1..Len(batches) :
         LET b == batches[n]
             ids == Concat(b.children)
         IN /\ b.st = "await"
            /\ \E k \in 1..Len(ids) : calls[ids[k]].st = "raised"
            /\ batches' = [batches EXCEPT
                  ![n].st = "raised",
                  ![n].left = {ids[k] : k \in {j \in 1..Len(ids) : calls[ids[j]].st = "await"}}]
    /\ UNCHANGED <<policyEngineInstance, policies, invocations, cachingEnabled, cache, cacheReads, now, facts, requests, retired, calls>>

\* The condition awaited by call n resolves to a boolean and the call resumes.
ConditionReturns ==
    \E n \in 1..Len(calls) :
      /\ calls[n].st = "await"
      /\ ~Delegates(calls[n].req.resourceType)
      /\ LET c == calls[n]
             role == PoliciesOf(c)[c.req.resourceType].roles[c.i]
         IN \E allowed \in Condition(c.req.resourceType, role.name,
                                     c.req.userId, c.req.resourceId) :
              LET out == IF c.req.op = "hasRole" THEN HasRoleResume(c, allowed)
                                                 ELSE HasPermissionResume(c, allowed)
              IN /\ calls' = [calls EXCEPT ![n] = out[1]]
                 /\ WriteCache(c, out[2])
                 /\ facts' = (Fact(c.req.resourceType, role.name, c.req.userId,
                                   c.req.resourceId) :> allowed) @@ facts
      /\ UNCHANGED <<policyEngineInstance, policies, invocations, cachingEnabled, cacheReads, now, requests, batches>>

\* Variant: a failed condition is taken as a denial.
MaskedAsDenied(c) ==
    [c EXCEPT !.st = "done", !.trace = SetLastOut(@, "raised"),
              !.res = Result(FALSE, "denied")]

\* const allowed = await role.condition(...) with a condition that throws:
\* there is no try/catch around the await, so the call throws what the
\* condition threw.
Rethrow(c) == [c EXCEPT !.st = "raised", !.trace = SetLastOut(@, "raised")]

\* Variant: a check whose condition failed leaves a denial in the cache.
DenialCachedOnRaise(c, cacheIn) ==
    IF UseCacheOf(c) THEN CacheSet(cacheIn, c.key, Result(FALSE, "denied"), c.req) ELSE cacheIn
\* The throw leaves the function before this.cache.set is reached.
CacheAfterRaise(c, cacheIn) == cacheIn

\* The condition awaited by call n throws: the await rethrows, nothing is
\* caught inside the engine, so the call fails without writing the cache.
ConditionRaises ==
    \E n \in 1..Len(calls) :
      /\ calls[n].st = "await"
      /\ calls' = [calls EXCEPT ![n] = Rethrow(calls[n])]
      /\ WriteCache(calls[n], CacheAfterRaise(calls[n], CacheOf(calls[n])))
      /\ UNCHANGED <<policyEngineInstance, policies, invocations, cachingEnabled, cacheReads, now, facts,
                     requests, batches>>

\* How deeply call n is nested: 1 for a call made by the engine's caller,
\* one more than the waiting call for a call made by a condition.
RECURSIVE Depth(_)
Depth(n) ==
    IF \E m \in 1..Len(calls) : calls[m].waitsFor = n
    THEN 1 + Depth(CHOOSE m \in 1..Len(calls) : calls[m].waitsFor = n)
    ELSE 1

\* The condition awaited by call n is one that asks for a role on the
\* resource above: its lookup has returned, and it either returns false
\* (nothing found) or calls the engine's hasRole, which runs to its first
\* await, and waits for it.
ConditionAsksAbove ==
    \E n \in 1..Len(calls) :
      LET c == calls[n]
          role == PoliciesOf(c)[c.req.resourceType].roles[c.i]
          above == AskedAbove(c.req.resourceType, role.name)
          id == IdAbove(c.req.resourceType, role.name, c.req.resourceId)
      IN /\ c.st = "await"
         /\ Delegates(c.req.resourceType)
         /\ c.waitsFor = 0
         /\ Depth(n) < MaxDepth
         /\ IF id = Undefined
            THEN LET out == IF c.req.op = "hasRole" THEN HasRoleResume(c, FALSE)
                                                    ELSE HasPermissionResume(c, FALSE)
                 IN /\ calls' = [calls EXCEPT ![n] = out[1]]
                    /\ WriteCache(c, out[2])
                    /\ UNCHANGED <<policies, cacheReads>>
            ELSE LET req == Req("hasRole", above.resourceType, above.roleName,
                                c.req.userId, id)
                     out == HasRoleEnter(req, cache, calls)
                 IN /\ calls' = Append([calls EXCEPT ![n].waitsFor = Len(calls) + 1],
                                       out[1])
                    /\ cache' = out[2]
                    /\ policies' = PoliciesAfterGet(policies, {req.resourceType})
                    /\ cacheReads' = cacheReads + (IF UseCache THEN 1 ELSE 0)
                    /\ UNCHANGED retired
      /\ UNCHANGED <<policyEngineInstance, invocations, cachingEnabled, now, facts,
                     requests, batches>>

\* The role check a condition waits for has returned or failed: the
\* condition returns its boolean, or fails as it failed, and the waiting
\* call resumes.
AskedAboveSettles ==
    \E n \in 1..Len(calls) :
      LET c == calls[n]
      IN /\ c.st = "await"
         /\ c.waitsFor # 0
         /\ calls[c.waitsFor].st \in {"done", "raised"}
         /\ IF calls[c.waitsFor].st = "raised"
            THEN /\ calls' = [calls EXCEPT ![n] = Rethrow(c)]
                 /\ UNCHANGED <<cache, retired>>
            ELSE LET allowed == acRoles_hasRole(calls[c.waitsFor].res)
                     out == IF c.req.op = "hasRole" THEN HasRoleResume(c, allowed)
                                                    ELSE HasPermissionResume(c, allowed)
                 IN /\ calls' = [calls EXCEPT ![n] = out[1]]
                    /\ WriteCache(c, out[2])
      /\ UNCHANGED <<policyEngineInstance, policies, invocations, cachingEnabled,
                     cacheReads, now, facts, requests, batches>>

\* Conditions that call the engine without suspending first nest hasRole
\* and condition frames on the call stack; in a cycle the nesting has no end
\* and the stack runs out.  The RangeError is thrown inside an async function,
\* so the innermost call fails (its promise is rejected) and the failure
\* travels up the awaiting calls.  Conditions that suspend before they call
\* never exhaust the stack: then this step does not happen.
CallStackExhausted ==
    \E n \in 1..Len(calls) :
      /\ calls[n].st = "await"
      /\ Delegates(calls[n].req.resourceType)
      /\ calls[n].waitsFor = 0
      /\ Depth(n) = MaxDepth
      /\ calls' = [calls EXCEPT ![n] = Rethrow(calls[n])]
      /\ UNCHANGED <<policyEngineInstance, policies, invocations, cachingEnabled, cache,
                     cacheReads, now, facts, requests, retired, batches>>

\* Time passes.
TimePoints == {0} \cup ((stdTTL - 1)..(stdTTL + Horizon))
Tick ==
    /\ \E t \in TimePoints : t > now /\ now' = t
    /\ UNCHANGED <<policyEngineInstance, policies, invocations, cachingEnabled, cache, cacheReads, facts,
                   requests, retired, calls, batches>>

\* NodeCache's check timer fires.  It is armed every checkperiod seconds and
\* runs when the event loop gets to it, so from the first period on the model
\* lets it run at any time, which includes every schedule the timer can have.
\* Every cache has a timer of its own, a replaced engine's cache too.
Sweep ==
    /\ now >= checkperiod
    /\ \E g \in 1..Generation :
         IF g = Generation
         THEN cache' = Swept(cache) /\ UNCHANGED retired
         ELSE retired' = [retired EXCEPT ![g].cache = Swept(@)] /\ UNCHANGED cache
    /\ UNCHANGED <<policyEngineInstance, policies, invocations, cachingEnabled, cacheReads, now, facts, requests, calls, batches>>

\* The relationships change: a grant is added or revoked in the application's
\* own store, so a condition asked again may answer differently.
ChangeFacts ==
    /\ \E f \in DOMAIN facts : facts' = [g \in DOMAIN facts \ {f} |-> facts[g]]
    /\ UNCHANGED <<policyEngineInstance, policies, invocations, cachingEnabled, cache, cacheReads, now, requests, retired, calls, batches>>

---------------------------------------------------------------------------
(* The module-level functions (has.ts) and the endpoints (server.ts) *)

\* A call of a has.ts function or a request to an endpoint that is waiting
\* for the engine call it made.  target: <<"call", n>> or <<"batch", n>>.
Invocation(via, fn, target) ==
    [via |-> via, fn |-> fn, target |-> target, st |-> "await", out |-> <<>>]

\* Variant: without an engine the function answers false.
DeniedWithoutEngine(fn) ==
    [via |-> "has", fn |-> fn, target |-> <<>>, st |-> "returned", out |-> FALSE]

\* if (!policyEngineInstance) throw new Error("Policy engine not initialized")
ThrowNotInitialized(fn) ==
    [via |-> "has", fn |-> fn, target |-> <<>>, st |-> "threw",
     out |-> "Policy engine not initialized"]

\* if (!policyEngineInstance) return ctx.json({ allowed: false, message:
\* "Zanzibar not initialized with policies" }, { status: 500 })
RespondNotInitialized(fn) ==
    [via |-> "endpoint", fn |-> fn, target |-> <<>>, st |-> "responded",
     out |-> [status |-> 500,
              body |-> [allowed |-> FALSE,
                        message |-> "Zanzibar not initialized with policies"]]]

WithoutEngine(via, fn) ==
    IF via = "has" THEN ThrowNotInitialized(fn) ELSE RespondNotInitialized(fn)

\* The plugin has been created: its endpoints exist.
PluginCreated ==
    \E n \in 1..Len(invocations) : invocations[n].fn = "ZanzibarPlugin"

\* The has.ts functions are exported by the module; an endpoint is reached
\* through the plugin that ZanzibarPlugin returned.
Callable(via) ==
    /\ Cardinality({n \in 1..Len(invocations) : invocations[n].fn # "ZanzibarPlugin"})
          < MaxInvocations
    /\ via = "endpoint" => PluginCreated

\* has.ts hasRole / hasPermission and the endpoints has-role / has-permission:
\* the guard on policyEngineInstance, then the engine's hasRole or
\* hasPermission is called and awaited.
OuterCheck(via, fn, op) ==
    /\ Callable(via)
    /\ \E req \in {q \in requests : q.op = op} :
         IF policyEngineInstance = "null"
         THEN /\ invocations' = Append(invocations, WithoutEngine(via, fn))
              /\ UNCHANGED <<policies, cache, cacheReads, calls>>
         ELSE LET out == IF op = "hasRole" THEN HasRoleEnter(req, cache, calls)
                                           ELSE HasPermissionEnter(req, cache, calls)
              IN /\ Len(calls) < MaxCalls
                 /\ calls' = Append(calls, out[1])
                 /\ cache' = out[2]
                 /\ policies' = PoliciesAfterGet(policies, {req.resourceType})
                 /\ cacheReads' = cacheReads + (IF UseCache THEN 1 ELSE 0)
                 /\ invocations' = Append(invocations,
                                         Invocation(via, fn, <<"call", Len(calls) + 1>>))
    /\ UNCHANGED <<policyEngineInstance, cachingEnabled, now, facts, requests, retired, batches>>

\* has.ts hasRoles / hasPermissions and the endpoints has-roles /
\* has-permissions: the guard, then the engine's hasMultipleRoles or
\* hasMultiplePermissions is called and awaited.
OuterMulti(via, fn, name, op) ==
    /\ Callable(via)
    /\ \E a \in {q \in requests : q.op = name} :
         IF policyEngineInstance = "null"
         THEN /\ invocations' = Append(invocations, WithoutEngine(via, fn))
              /\ UNCHANGED <<policies, cache, cacheReads, calls, batches>>
         ELSE LET groups == [g \in 1..Len(a.input) |->
                               ChecksOfGroup(op, a.userId, a.resourceId, a.input[g])]
                  reqs == Concat(groups)
                  out == StartAll(reqs, cache, calls)
              IN /\ Len(batches) < MaxAggregates
                 /\ Len(calls) + Len(reqs) <= MaxCalls
                 /\ calls' = out[1]
                 /\ cache' = out[2]
                 /\ policies' = PoliciesAfterGet(policies,
                                   {reqs[k].resourceType : k \in 1..Len(reqs)})
                 /\ cacheReads' = cacheReads + (IF UseCache THEN Len(reqs) ELSE 0)
                 /\ batches' = Append(batches,
                       NewBatch(name, a.userId, a.input,
                                ChildIds([g \in 1..Len(groups) |-> Len(groups[g])],
                                         Len(calls))))
                 /\ invocations' = Append(invocations,
                                         Invocation(via, fn, <<"batch", Len(batches) + 1>>))
    /\ UNCHANGED <<policyEngineInstance, cachingEnabled, now, facts, requests, retired>>

\* has.ts
hasRole ==
    /\ OuterCheck("has", "hasRole", "hasRole")
hasRoles ==
    /\ OuterMulti("has", "hasRoles", "hasMultipleRoles", "hasRole")
hasPermission ==
    /\ OuterCheck("has", "hasPermission", "hasPermission")
hasPermissions ==
    /\ OuterMulti("has", "hasPermissions", "hasMultiplePermissions", "hasPermission")

\* server.ts: ZanzibarPlugin(...).endpoints
endpoints_hasRole ==
    /\ OuterCheck("endpoint", "hasRole", "hasRole")
endpoints_hasRoles ==
    /\ OuterMulti("endpoint", "hasRoles", "hasMultipleRoles", "hasRole")
endpoints_hasPermission ==
    /\ OuterCheck("endpoint", "hasPermission", "hasPermission")
endpoints_hasPermissions ==
    /\ OuterMulti("endpoint", "hasPermissions", "hasMultiplePermissions", "hasPermission")

\* The engine call an invocation waits for.
TargetOf(inv) ==
    IF inv.target[1] = "call" THEN calls[inv.target[2]] ELSE batches[inv.target[2]]

\* has.ts: return (await policyEngineInstance.hasRole(...)).allowed for hasRole
\* and hasPermission, return await policyEngineInstance.hasMultiple...(...)
\* for hasRoles and hasPermissions.
HasReturns(fn, res) ==
    IF fn \in {"hasRole", "hasPermission"} THEN res.allowed ELSE res

\* Variant: a failure of the engine call is answered as a denial with
\* status 200.
CaughtAsDenial == [status |-> 200,
                   body |-> [allowed |-> FALSE, message |-> "Internal server error"]]

\* catch (error) { return ctx.json({ allowed: false, message: "Internal
\* server error" }, { status: 500 }) }
Caught == [status |-> 500,
           body |-> [allowed |-> FALSE, message |-> "Internal server error"]]

\* return ctx.json({ ...allowed }) / return ctx.json(result): status 200.
Responds(res) == [status |-> 200, body |-> res]

\* The engine call of invocation n has returned or failed: the has.ts
\* function returns or rethrows, the endpoint responds.
InvocationSettles ==
    /\ \E n \in 1..Len(invocations) :
         LET inv == invocations[n]
         IN /\ inv.st = "await"
            /\ TargetOf(inv).st \in {"done", "raised"}
            /\ invocations' = [invocations EXCEPT ![n] =
                  IF inv.via = "has"
                  THEN IF TargetOf(inv).st = "done"
                       THEN [inv EXCEPT !.st = "returned",
                                        !.out = HasReturns(inv.fn, TargetOf(inv).res)]
                       ELSE [inv EXCEPT !.st = "threw", !.out = "rethrown"]
                  ELSE IF TargetOf(inv).st = "done"
                       THEN [inv EXCEPT !.st = "responded",
                                        !.out = Responds(TargetOf(inv).res)]
                       ELSE [inv EXCEPT !.st = "responded", !.out = Caught]]
    /\ UNCHANGED <<policyEngineInstance, policies, cachingEnabled, cache, cacheReads,
                   now, facts, requests, retired, calls, batches>>

\* The arguments of a call of initializePolicyEngine or ZanzibarPlugin: the
\* registry, and the caching flag, which may be omitted (undefined).
Setup(op, p, flag) == [op |-> op, policies |-> p, cachingEnabled |-> flag]

\* Variant: an omitted flag enables caching.
OmittedMeansEnabled(flag) == IF flag = Undefined THEN TRUE ELSE flag[1]

\* ZanzibarPlugin(policies, cachingEnabled: boolean = false)
PluginDefault(flag) == IF flag = Undefined THEN FALSE ELSE flag[1]

\* initializePolicyEngine(policies, cachingEnabled = true)
InitializeDefault(flag) == IF flag = Undefined THEN TRUE ELSE flag[1]

\* Variant: the new engine takes over the cache of the engine it replaces.
CacheKept == cache

\* new PolicyEngine(...): private cache = new NodeCache(...)
CacheOfNewEngine == EmptyCache

\* policyEngineInstance = new PolicyEngine(policies, cachingEnabled)
NewPolicyEngine(p, enabled) ==
    /\ policyEngineInstance' = "engine"
    /\ policies' = p
    /\ cachingEnabled' = enabled
    /\ cache' = CacheOfNewEngine

\* The engine policyEngineInstance referred to, which the calls in flight on
\* it still hold as their this.
Retired == [policies |-> policies, cachingEnabled |-> cachingEnabled, cache |-> cache]

\* initializePolicyEngine(policies, cachingEnabled = true): a new engine with
\* an empty cache becomes the module's engine, whether or not there was one.
initializePolicyEngine ==
    /\ policyEngineInstance = "null" \/ Len(retired) < MaxRetired
    /\ \E a \in {q \in requests : q.op = "initializePolicyEngine"} :
          NewPolicyEngine(a.policies, InitializeDefault(a.cachingEnabled))
    /\ retired' = IF policyEngineInstance = "null" THEN retired
                                                   ELSE Append(retired, Retired)
    /\ UNCHANGED <<invocations, cacheReads, now, facts, requests, calls, batches>>

\* ZanzibarPlugin(policies, cachingEnabled = false): initializes the engine
\* if there is none, and returns the plugin with its endpoints.
ZanzibarPlugin ==
    /\ Cardinality({n \in 1..Len(invocations) : invocations[n].fn = "ZanzibarPlugin"})
          < MaxPlugins
    /\ \E a \in {q \in requests : q.op = "ZanzibarPlugin"} :
          /\ IF policyEngineInstance = "null"
             THEN NewPolicyEngine(a.policies, PluginDefault(a.cachingEnabled))
             ELSE UNCHANGED <<policyEngineInstance, policies, cachingEnabled, cache>>
          /\ invocations' = Append(invocations,
                [via |-> "server", fn |-> "ZanzibarPlugin", target |-> <<>>,
                 st |-> "returned", out |-> a])
    /\ UNCHANGED <<cacheReads, now, facts, requests, retired, calls, batches>>

\* The individual checks, the conditions they wait for, the clock and the cache.
NextChecks ==
    \/ HasRole
    \/ HasPermission
    \/ ConditionReturns
    \/ ConditionRaises
    \/ Tick
    \/ Sweep
    \/ ChangeFacts

\* Every operation of the engine.
Next ==
    \/ HasRole
    \/ HasPermission
    \/ HasMultipleRoles
    \/ HasMultiplePermissions
    \/ HasPermissions
    \/ AggregateReturns
    \/ AggregateRaises
    \/ ConditionReturns
    \/ ConditionRaises
    \/ Tick
    \/ Sweep
    \/ ChangeFacts

---------------------------------------------------------------------------
(* Specifications *)

\* The state after new PolicyEngine(policies, cachingEnabled).
Constructed ==
    /\ policyEngineInstance = "engine"
    /\ policies = Policies
    /\ invocations = <<>>
    /\ cachingEnabled \in BOOLEAN
    /\ cache = EmptyCache
    /\ cacheReads = 0
    /\ now = 0
    /\ facts = [f \in {} |-> TRUE]
    /\ calls = <<>>
    /\ batches = <<>>
    /\ retired = <<>>

\* Checks by one user on one resource: every outcome of the two lookups.
CoreRequests ==
    {Req("hasRole", "project", n, "u1", Str("r1")) : n \in {"owner", "nobody"}}
    \cup {Req("hasRole", t, "owner", "u1", Str("r1")) : t \in {"ghost", "constructor"}}
    \cup {Req("hasPermission", "project", a, "u1", Str("r1")) :
            a \in {"read", "purge"}}
    \cup {Req("hasPermission", t, "read", "u1", Str("r1")) : t \in {"ghost", "constructor"}}

Init ==
    /\ Constructed
    /\ requests = CoreRequests

\* Individual checks only: what an aggregate call adds to calls and cache is
\* what its checks, started one after the other, add.
Spec == Init /\ [][NextChecks]_vars

\* Checks whose arguments contain the ':' that separates the parts of a key.
KeyRequests ==
    { Req("hasRole", "project", "owner", "u1", Str("r1:x")),
      Req("hasRole", "project", "owner", "u1:r1", Str("x")),
      Req("hasRole", "project", "owner:u1", "r1", Str("x")),
      Req("hasPermission", "project", "read", "u1:x", Str("r1")),
      Req("hasPermission", "project", "x:read", "u1", Str("r1")) }

InitKeys ==
    /\ Constructed
    /\ requests = KeyRequests

SpecKeys == InitKeys /\ [][NextChecks]_vars

\* The individual checks over conditions that are functions of (userId,
\* resourceId) and return: the relationships do not change, no condition throws.
NextChecksFixed ==
    \/ HasRole
    \/ HasPermission
    \/ ConditionReturns
    \/ Tick
    \/ Sweep

SpecKeysFixed == InitKeys /\ [][NextChecksFixed]_vars

\* Checks made without a resourceId, with the string "undefined" and with
\* the id of a resource, one of them an id that ends in ":undefined".
SentinelRequests ==
    {Req("hasRole", "project", "owner", "u1", r) :
        r \in {Undefined, Str("undefined"), Str("r1")}}
    \cup { Req("hasRole", "project", "owner", "u1:r1", Undefined),
           Req("hasRole", "project", "owner", "u1", Str("r1:undefined")),
           Req("hasPermission", "project", "read", "u1", Undefined) }

InitSentinel ==
    /\ Constructed
    /\ requests = SentinelRequests

SpecSentinel == InitSentinel /\ [][NextChecks]_vars

\* Aggregate calls next to individual checks.
Multi(op, userId, input, resourceId) ==
    [op |-> op, userId |-> userId, input |-> input, resourceId |-> resourceId]
Group(resourceType, items) == [resourceType |-> resourceType, items |-> items]
Named(op, userId, input) == [op |-> op, userId |-> userId, input |-> input]
Check(key, resourceType, action, actions, resourceId) ==
    [key |-> key, resourceType |-> resourceType, action |-> action,
     actions |-> actions, resourceId |-> resourceId]
AggregateRequests ==
    { Req("hasRole", "project", "owner", "u1", Str("r1")),
      Req("hasPermission", "project", "read", "u1", Str("r1")) }
    \cup {Multi("hasMultipleRoles", "u1", m, Str("r1")) : m \in
            { <<>>,
              <<Group("project", <<>>)>>,
              <<Group("project", <<>>), Group("__proto__", <<>>)>>,
              <<Group("project", <<"owner", "owner">>)>>,
              <<Group("project", <<"owner", "nobody">>)>>,
              <<Group("project", <<"nobody", "nobody">>)>>,
              <<Group("project", <<"owner", "__proto__">>)>>,
              <<Group("project", <<"owner">>), Group("ghost", <<"owner">>)>> }}
    \cup {Multi("hasMultiplePermissions", "u1", m, Str("r1")) : m \in
            { <<Group("project", <<"read", "purge">>)>>,
              <<Group("project", <<"write", "write">>)>>,
              <<Group("project", <<"read">>), Group("constructor", <<"read">>)>> }}
    \cup {Named("hasPermissions", "u1", c) : c \in
            { <<Check("first", "project", Str("read"), <<>>, Str("r1")),
                Check("second", "project", Undefined, <<>>, Str("r1"))>>,
              <<Check("first", "project", Undefined, <<"read", "purge">>, Str("r1"))>>,
              <<Check("first", "project", Undefined, <<"read", "read">>, Str("r1"))>>,
              <<Check("first", "project", Undefined, <<"read", "__proto__">>, Str("r1"))>>,
              <<Check("first", "project", Str("write"), <<"read">>, Str("r1"))>>,
              <<Check("first", "project", Str(""), <<"read">>, Str("r1"))>>,
              <<Check("__proto__", "project", Str("read"), <<>>, Str("r1"))>> }}

InitAggregates ==
    /\ Constructed
    /\ requests = AggregateRequests

SpecAggregates == InitAggregates /\ [][Next]_vars

\* The same calls over conditions that are functions of (userId, resourceId)
\* and return: the relationships do not change and no condition throws.
NextFixed ==
    \/ HasRole
    \/ HasPermission
    \/ HasMultipleRoles
    \/ HasMultiplePermissions
    \/ HasPermissions
    \/ AggregateReturns
    \/ AggregateRaises
    \/ ConditionReturns
    \/ Tick
    \/ Sweep

SpecFixed == InitAggregates /\ [][NextFixed]_vars

\* The module before any engine exists.
Loaded ==
    /\ policyEngineInstance = "null"
    /\ policies = Policies
    /\ invocations = <<>>
    /\ cachingEnabled = FALSE
    /\ cache = EmptyCache
    /\ cacheReads = 0
    /\ now = 0
    /\ facts = [f \in {} |-> TRUE]
    /\ calls = <<>>
    /\ batches = <<>>
    /\ retired = <<>>

\* What callers of has.ts and clients of the endpoints ask.
OuterRequests ==
    { Req("hasRole", "project", "owner", "u1", Str("r1")),
      Req("hasRole", "constructor", "owner", "u1", Str("r1")),
      Req("hasPermission", "project", "read", "u1", Str("r1")),
      Multi("hasMultipleRoles", "u1", <<Group("project", <<"owner", "nobody">>)>>, Str("r1")),
      Multi("hasMultiplePermissions", "u1", <<Group("project", <<"read">>)>>, Str("r1")),
      Setup("initializePolicyEngine", Policies, <<>>),
      Setup("initializePolicyEngine", Policies, <<FALSE>>),
      Setup("ZanzibarPlugin", Policies, <<TRUE>>) }

InitOuter ==
    /\ Loaded
    /\ requests = OuterRequests

\* The module-level functions and the endpoints over the engine.
NextOuter ==
    \/ initializePolicyEngine
    \/ ZanzibarPlugin
    \/ hasRole
    \/ hasRoles
    \/ hasPermission
    \/ hasPermissions
    \/ endpoints_hasRole
    \/ endpoints_hasRoles
    \/ endpoints_hasPermission
    \/ endpoints_hasPermissions
    \/ InvocationSettles
    \/ AggregateReturns
    \/ AggregateRaises
    \/ ConditionReturns
    \/ ConditionRaises

SpecOuter == InitOuter /\ [][NextOuter]_vars

\* The engine initialized and initialized again with another registry, with
\* checks through has.ts before, meanwhile and afterwards.
ReplaceRequests ==
    { Setup("initializePolicyEngine", Policies, <<>>),
      Setup("initializePolicyEngine", RevisedPolicies, <<TRUE>>),
      Setup("initializePolicyEngine", RevisedPolicies, <<FALSE>>),
      Req("hasRole", "project", "owner", "u1", Str("r1")),
      Req("hasPermission", "project", "read", "u1", Str("r1")) }

InitReplace ==
    /\ Loaded
    /\ requests = ReplaceRequests

NextReplace ==
    \/ initializePolicyEngine
    \/ hasRole
    \/ hasPermission
    \/ InvocationSettles
    \/ ConditionReturns
    \/ ConditionRaises

SpecReplace == InitReplace /\ [][NextReplace]_vars

\* The plugin created more than once, with different registries and flags,
\* and requests to its endpoints.
PluginRequests ==
    { Setup("ZanzibarPlugin", p, flag) :
        p \in {Policies, QuickStartPolicies}, flag \in {<<>>, <<TRUE>>, <<FALSE>>} }
    \cup { Req("hasRole", "project", "owner", "u1", Str("r1")),
           Req("hasPermission", "project", "edit", "u1", Str("r1")) }

InitPlugin ==
    /\ Loaded
    /\ requests = PluginRequests

\* The plugin and its endpoints, initializePolicyEngine not being called
\* directly.
NextPlugin ==
    \/ ZanzibarPlugin
    \/ endpoints_hasRole
    \/ endpoints_hasPermission
    \/ InvocationSettles
    \/ ConditionReturns

SpecPlugin == InitPlugin /\ [][NextPlugin]_vars

\* An engine constructed over the quick start's registry.
QuickStartRequests ==
    { Req("hasRole", "file", "owner", "u1", Str("f1")),
      Req("hasRole", "file", "owner", "u1", Str("f9")),
      Req("hasRole", "folder", "owner", "u1", Str("d1")),
      Req("hasRole", "project", "owner", "u1", Str("p1")) }

InitQuickStart ==
    /\ policyEngineInstance = "engine"
    /\ policies = QuickStartPolicies
    /\ invocations = <<>>
    /\ cachingEnabled \in BOOLEAN
    /\ cache = EmptyCache
    /\ cacheReads = 0
    /\ now = 0
    /\ facts = [f \in {} |-> TRUE]
    /\ calls = <<>>
    /\ batches = <<>>
    /\ retired = <<>>
    /\ requests = QuickStartRequests

\* Role checks over the quick start's registry, whose predicates return and
\* whose relationships do not change.
NextQuickStart ==
    \/ HasRole
    \/ ConditionReturns
    \/ ConditionAsksAbove
    \/ AskedAboveSettles

\* Every promise that can settle does: the event loop runs the continuation
\* of each resolved await.
SpecQuickStart ==
    /\ InitQuickStart
    /\ [][NextQuickStart]_vars
    /\ WF_vars(ConditionReturns)
    /\ WF_vars(ConditionAsksAbove)
    /\ WF_vars(AskedAboveSettles)

\* An engine constructed over the cyclic registry.
CyclicRequests ==
    { Req("hasRole", "ring", "a", "u1", Str("r1")),
      Req("hasRole", "ring", "b", "u1", Str("r1")),
      Req("hasRole", "ring", "a", "u2", Str("r1")) }

InitCyclic ==
    /\ policyEngineInstance = "engine"
    /\ policies = CyclicPolicies
    /\ invocations = <<>>
    /\ cachingEnabled \in BOOLEAN
    /\ cache = EmptyCache
    /\ cacheReads = 0
    /\ now = 0
    /\ facts = [f \in {} |-> TRUE]
    /\ calls = <<>>
    /\ batches = <<>>
    /\ retired = <<>>
    /\ requests = CyclicRequests

\* Role checks over the cyclic registry.
NextCyclic ==
    \/ HasRole
    \/ ConditionAsksAbove
    \/ AskedAboveSettles
    \/ CallStackExhausted

SpecCyclic == InitCyclic /\ [][NextCyclic]_vars

---------------------------------------------------------------------------
(* Vocabulary of the properties *)

CallIds == 1..Len(calls)
Registered(req) == req.resourceType \in DOMAIN Policies
IsRoleOf(req) ==
    /\ Registered(req)
    /\ \E i \in 1..Len(Policies[req.resourceType].roles) :
          Policies[req.resourceType].roles[i].name = req.name
Declared(req) ==
    /\ Registered(req)
    /\ \E i \in 1..Len(Policies[req.resourceType].actions) :
          Policies[req.resourceType].actions[i] = req.name
\* The names of the roles of the request's resource that grant its action,
\* in declared order.
GrantsAction(role, action) == \E i \in 1..Len(role.actions) : role.actions[i] = action
Granting(req) ==
    LET roles == Policies[req.resourceType].roles
        keep(role) == GrantsAction(role, req.name)
        kept == SelectSeq(roles, keep)
    IN [i \in 1..Len(kept) |-> kept[i].name]
InvokedRoles(c) == [i \in 1..Len(c.trace) |-> c.trace[i].role]
IsPrefix(s, t) == Len(s) <= Len(t) /\ \A i \in 1..Len(s) : s[i] = t[i]
BatchIds == 1..Len(batches)
IsMulti(b) == b.op \in {"hasMultipleRoles", "hasMultiplePermissions"}
\* The <<resourceType, item>> pairs of an input mapping, in entry order.
PairsOf(input) ==
    Concat([g \in 1..Len(input) |->
              [i \in 1..Len(input[g].items) |-> <<input[g].resourceType, input[g].items[i]>>]])


---------------------------------------------------------------------------
(* Properties *)

\* C1: a hasRole or hasPermission call on a resource type that is not a key of
\* the registry returns allowed=false with the message "Unknown resource type
\* '<type>'", invokes no condition and never raises.
C1_UnknownResourceTypeDenied ==
    \A n \in CallIds :
        LET c == calls[n]
        IN ~Registered(c.req) =>
              /\ c.st = "done"
              /\ c.res.allowed = FALSE
              /\ c.res.message = "Unknown resource type '" \o c.req.resourceType \o "'"
              /\ c.trace = <<>>

\* C2: on a registered resource type, hasRole with a name that is no role of
\* the resource returns allowed=false with "Unknown role ...", hasPermission
\* with an action the resource does not declare returns allowed=false with
\* "Unknown action ..." (also when a role lists that action); no condition is
\* invoked and nothing is raised.
C2_UnknownRoleOrActionDenied ==
    \A n \in CallIds :
        LET c == calls[n]
            t == c.req.resourceType
        IN /\ (c.req.op = "hasRole" /\ Registered(c.req) /\ ~IsRoleOf(c.req)) =>
                 /\ c.st = "done"
                 /\ c.res.allowed = FALSE
                 /\ c.res.message =
                      "Unknown role '" \o c.req.name \o "' for resource '" \o t \o "'"
                 /\ c.trace = <<>>
           /\ (c.req.op = "hasPermission" /\ Registered(c.req) /\ ~Declared(c.req)) =>
                 /\ c.st = "done"
                 /\ c.res.allowed = FALSE
                 /\ c.res.message =
                      "Unknown action '" \o c.req.name \o "' for resource '" \o t \o "'"
                 /\ c.trace = <<>>

\* C3 as stated: whenever hasPermission returns on a registered resource type,
\* allowed is true iff some role that lists the action has a condition that
\* is true for (userId, resourceId).  A condition is known to be true (false)
\* when it answered so and the relationships have not changed since: allowed
\* needs a listing role not known false, denied needs none known true.
KnownAs(req, roleName, b) ==
    LET f == Fact(req.resourceType, roleName, req.userId, req.resourceId)
    IN f \in DOMAIN facts /\ facts[f] = b
C4_ScanInDeclaredOrderStopsAtFirstTrue ==
    \A n \in CallIds :
        LET c == calls[n]
            G == Granting(c.req)
            L == Len(c.trace)
        IN (c.req.op = "hasPermission" /\ Registered(c.req) /\ Declared(c.req) /\ ~c.hit)
           => /\ IsPrefix(InvokedRoles(c), G)
              /\ \A k \in 1..(L - 1) : c.trace[k].out = "false"
              /\ c.st = "await" => (L > 0 /\ c.trace[L].out = "pending")
              /\ c.st = "raised" => (L > 0 /\ c.trace[L].out = "raised")
              /\ c.st = "done" =>
                    /\ L > 0 => c.trace[L].out \in {"true", "false"}
                    /\ c.res.allowed <=> (L > 0 /\ c.trace[L].out = "true")
                    /\ ~c.res.allowed => L = Len(G)

\* C4 witness: "read" is granted by owner and viewer but not by editor, which
\* stands between them: owner returned false, then viewer was invoked.
C4_Witness ==
    \E n \in CallIds :
        /\ calls[n].req.op = "hasPermission" /\ calls[n].req.name = "read"
        /\ ~calls[n].hit /\ calls[n].st = "done"
        /\ InvokedRoles(calls[n]) = <<"owner", "viewer">>
        /\ calls[n].trace[1].out = "false" /\ calls[n].trace[2].out = "true"

\* C5: a hasRole call that misses the cache, for a role of a registered
\* resource type, invokes that role's condition and no other, once, and
\* returns allowed equal to the condition's boolean with the message
\* "Role '<name>' allowed on <type>" or "Role '<name>' denied on <type>".
C5_RoleCheckWrapsItsCondition ==
    \A n \in CallIds :
        LET c == calls[n]
        IN (c.req.op = "hasRole" /\ IsRoleOf(c.req) /\ ~c.hit)
           => /\ InvokedRoles(c) = <<c.req.name>>
              /\ c.st = "done" =>
                    /\ c.trace[1].out \in {"true", "false"}
                    /\ c.res.allowed <=> (c.trace[1].out = "true")
                    /\ c.res.message =
                         "Role '" \o c.req.name \o "' "
                            \o (IF c.trace[1].out = "true" THEN "allowed" ELSE "denied")
                            \o " on " \o c.req.resourceType

\* C5 witness: one role check allowed and one denied, both evaluated.
C5_Witness ==
    \E n, m \in CallIds :
        /\ calls[n].req.op = "hasRole" /\ calls[n].req.name = "owner"
        /\ ~calls[n].hit /\ calls[n].st = "done" /\ calls[n].res.allowed
        /\ calls[m].req = calls[n].req
        /\ ~calls[m].hit /\ calls[m].st = "done" /\ ~calls[m].res.allowed

\* C6: with caching enabled, when a hasRole call has returned and stored its
\* result, an identical call that begins afterwards and less than 300 seconds
\* after the store is answered from the cache: it does not consult the
\* registry and invokes no condition, so the two calls invoke the condition
\* at most once.
C6_SecondIdenticalRoleCheckIsServed ==
    \A i, j \in CallIds :
        (/\ cachingEnabled
         /\ calls[i].req.op = "hasRole"
         /\ calls[j].req = calls[i].req
         /\ i \in calls[j].seen
         /\ calls[i].stored
         /\ calls[j].t0 < calls[i].storedAt + 300)
        => /\ calls[j].hit
           /\ calls[j].st = "done"
           /\ ~calls[j].lookedUp
           /\ calls[j].trace = <<>>
           /\ Len(calls[i].trace) + Len(calls[j].trace) <= 1

\* C6 witness: the first call invoked the condition and stored at time 0, the
\* second began 299 seconds later and returned the stored result.
C6_Witness ==
    \E i, j \in CallIds :
        /\ cachingEnabled
        /\ calls[i].req.op = "hasRole" /\ calls[i].req.name = "owner"
        /\ calls[j].req = calls[i].req
        /\ i \in calls[j].seen
        /\ calls[i].stored /\ Len(calls[i].trace) = 1 /\ calls[i].storedAt = 0
        /\ calls[j].t0 = 299
        /\ calls[j].hit /\ calls[j].res = calls[i].res

\* C7: on an engine constructed with caching disabled, whatever hasRole,
\* hasPermission, hasMultipleRoles, hasMultiplePermissions and hasPermissions
\* calls have been made, the cache is empty and has never been read, no call
\* was answered from it or wrote to it, and every hasRole call for a role of a
\* registered resource type has invoked that role's condition.
C7_DisabledCachingLeavesCacheUntouched ==
    ~cachingEnabled =>
        /\ cache = EmptyCache
        /\ cacheReads = 0
        /\ \A n \in CallIds :
              LET c == calls[n]
              IN /\ ~c.hit /\ ~c.stored
                 /\ (c.req.op = "hasRole" /\ IsRoleOf(c.req))
                       => InvokedRoles(c) = <<c.req.name>>

\* C7 witness: caching disabled, a hasMultipleRoles call listing the same role
\* twice has returned, and each of its two role checks invoked the condition.
C7_Witness ==
    /\ ~cachingEnabled
    /\ \E n \in 1..Len(batches) :
          LET b == batches[n]
              ids == Concat(b.children)
          IN /\ b.op = "hasMultipleRoles" /\ b.st = "done"
             /\ Len(ids) = 2
             /\ calls[ids[1]].req = calls[ids[2]].req
             /\ \A k \in 1..2 : calls[ids[k]].st = "done" /\ Len(calls[ids[k]].trace) = 1

\* C8: two checks that differ in operation, resource type, role or action,
\* userId or resourceId never build the same cache key, whatever strings the
\* parts are, so no check is answered with a result another check stored.
C8_KeysNeverCollide ==
    /\ \A n, m \in CallIds : calls[n].req # calls[m].req => calls[n].key # calls[m].key
    /\ \A n \in CallIds : calls[n].hit => calls[n].hitBy = calls[n].req

\* C9: a check made without a resourceId and the same check made with the
\* string "undefined" build the same key, so that with caching enabled the
\* one that begins after the other has stored its result, within the TTL,
\* returns the stored result; and a check made without a resourceId never
\* builds the key of a check made with the id of a resource (any resourceId
\* other than "undefined").
SameButResourceId(p, q) ==
    /\ p.op = q.op /\ p.resourceType = q.resourceType
    /\ p.name = q.name /\ p.userId = q.userId
SentinelServed(i, j) ==
    \A a, b \in {i, j} :
        (/\ cachingEnabled
         /\ a \in calls[b].seen
         /\ calls[a].stored
         /\ calls[b].t0 < calls[a].storedAt + 300)
        => /\ calls[b].hit
           /\ calls[b].trace = <<>>
           /\ calls[b].hitBy \in {calls[i].req, calls[j].req}
C9_OmittedResourceIdSharesOnlySentinelKey ==
    \A i, j \in CallIds :
        calls[i].req.resourceId = Undefined
        => /\ (SameButResourceId(calls[i].req, calls[j].req)
                 /\ calls[j].req.resourceId = Str("undefined"))
              => (calls[i].key = calls[j].key /\ SentinelServed(i, j))
           /\ calls[j].req.resourceId \notin {Undefined, Str("undefined")}
              => calls[i].key # calls[j].key

\* C9 between checks that agree on every other argument: the key of the check
\* without a resourceId is the key of the check with "undefined" and of no
\* other resourceId, and the later of the two is served the earlier's result.
C9_SentinelKeyAmongChecksOfOneSubject ==
    \A i, j \in CallIds :
        (SameButResourceId(calls[i].req, calls[j].req)
           /\ calls[i].req.resourceId = Undefined)
        => /\ (calls[i].key = calls[j].key) <=>
                 calls[j].req.resourceId \in {Undefined, Str("undefined")}
           /\ calls[j].req.resourceId = Str("undefined") => SentinelServed(i, j)

\* C9 witness: the check with "undefined" is answered with the result that
\* the check without a resourceId stored.
C9_Witness ==
    \E i, j \in CallIds :
        /\ SameButResourceId(calls[i].req, calls[j].req)
        /\ calls[i].req.resourceId = Undefined
        /\ calls[j].req.resourceId = Str("undefined")
        /\ calls[i].stored /\ Len(calls[i].trace) = 1
        /\ calls[j].hit /\ calls[j].hitBy = calls[i].req
        /\ calls[j].res = calls[i].res

StoredFor(j) ==
    {i \in calls[j].seen : calls[i].key = calls[j].key /\ calls[i].stored}
C11_MultiAllowedIffEveryCheckAllowed ==
    \A n \in BatchIds :
        LET b == batches[n]
            ids == Concat(b.children)
        IN (IsMulti(b) /\ b.st = "done")
           => /\ [k \in 1..Len(ids) |->
                    <<calls[ids[k]].req.resourceType, calls[ids[k]].req.name>>]
                 = PairsOf(b.input)
              /\ \A k \in 1..Len(ids) :
                    /\ calls[ids[k]].st = "done"
                    /\ calls[ids[k]].req.op = (IF b.op = "hasMultipleRoles"
                                               THEN "hasRole" ELSE "hasPermission")
                    /\ calls[ids[k]].req.userId = b.userId
                    /\ calls[ids[k]].req.resourceId = calls[ids[1]].req.resourceId
              /\ b.res.allowed <=> \A k \in 1..Len(ids) : calls[ids[k]].res.allowed

\* C11 witness: a hasMultiplePermissions call returned allowed=false after its
\* first check was allowed and its second denied, and a hasMultipleRoles call
\* cannot be told from it: the other case, both checks allowed, is reached by
\* the same call when the second check is allowed too.
C11_Witness ==
    \E n \in BatchIds :
        LET b == batches[n]
            ids == Concat(b.children)
        IN /\ b.op = "hasMultiplePermissions" /\ b.st = "done"
           /\ Len(ids) = 2
           /\ calls[ids[1]].res.allowed /\ ~calls[ids[2]].res.allowed
           /\ ~b.res.allowed

\* C12: in every result returned by hasMultipleRoles or hasMultiplePermissions,
\* allowed is true iff every boolean stored in the returned results map is true.
C12_AllowedIffEveryStoredBooleanTrue ==
    \A n \in BatchIds :
        LET b == batches[n]
        IN (IsMulti(b) /\ b.st = "done")
           => (b.res.allowed <=>
                 \A t \in DOMAIN b.res.results :
                    \A i \in DOMAIN b.res.results[t] : b.res.results[t][i])

\* C13: the results map returned by hasMultipleRoles or hasMultiplePermissions
\* has exactly the resource types of the input as its keys, under each of them
\* exactly the items listed for it, and each item is mapped to the allowed
\* value of the check issued for it.
C13_ResultsMirrorTheInput ==
    \A n \in BatchIds :
        LET b == batches[n]
            ids == Concat(b.children)
            pairs == PairsOf(b.input)
        IN (IsMulti(b) /\ b.st = "done")
           => /\ DOMAIN b.res.results = {b.input[g].resourceType : g \in 1..Len(b.input)}
              /\ \A g \in 1..Len(b.input) :
                    DOMAIN b.res.results[b.input[g].resourceType]
                    = {b.input[g].items[i] : i \in 1..Len(b.input[g].items)}
              /\ \A k \in 1..Len(ids) :
                    /\ pairs[k][1] \in DOMAIN b.res.results
                    /\ pairs[k][2] \in DOMAIN b.res.results[pairs[k][1]]
                    /\ b.res.results[pairs[k][1]][pairs[k][2]] = calls[ids[k]].res.allowed

\* C14: when hasMultipleRoles or hasMultiplePermissions returns allowed=false,
\* its message is the denial prefix followed by the resourceType:item pair of
\* every denied check of the call, in issue order, and of no allowed check;
\* when it returns allowed=true the message is "All roles granted" or
\* "All permissions granted".
C14_MessageListsTheDeniedChecks ==
    \A n \in BatchIds :
        LET b == batches[n]
            ids == Concat(b.children)
            isDenied(id) == ~calls[id].res.allowed
            deniedIds == SelectSeq(ids, isDenied)
            noun == IF b.op = "hasMultipleRoles" THEN "roles" ELSE "permissions"
        IN (IsMulti(b) /\ b.st = "done")
           => b.res.message =
                 IF b.res.allowed
                 THEN "All " \o noun \o " granted"
                 ELSE "Some " \o noun \o " denied: " \o
                      Join([k \in 1..Len(deniedIds) |->
                              calls[deniedIds[k]].req.resourceType \o ":"
                                 \o calls[deniedIds[k]].req.name])

\* C14 witness: hasMultiplePermissions over read and purge returned with read
\* allowed and purge denied, and its message names project:purge alone.
C14_Witness ==
    \E n \in BatchIds :
        LET b == batches[n]
            ids == Concat(b.children)
        IN /\ b.op = "hasMultiplePermissions" /\ b.st = "done"
           /\ Len(ids) = 2
           /\ calls[ids[1]].res.allowed /\ ~calls[ids[2]].res.allowed
           /\ b.res.message = "Some permissions denied: project:purge"

\* C15 as stated: a hasMultipleRoles or hasMultiplePermissions call whose input
\* yields no check issues none, returns allowed=true, and its results map is
\* empty.
C15_NoCheckReturnsEmptyResults ==
    \A n \in BatchIds :
        LET b == batches[n]
        IN (IsMulti(b) /\ b.st = "done" /\ PairsOf(b.input) = <<>>)
           => /\ Concat(b.children) = <<>>
              /\ b.res.allowed
              /\ DOMAIN b.res.results = {}

\* C15 amended: a hasMultipleRoles or hasMultiplePermissions call whose input
\* yields no check issues none (so no condition is invoked for it), returns
\* allowed=true with the blanket message, and its results map holds no boolean:
\* its keys are the resource types of the input other than "__proto__", each
\* mapped to an empty map, so it is empty only when the input names no such
\* resource type.
C15_NoCheckReturnsAllowedAndEmptyLeaves ==
    \A n \in BatchIds :
        LET b == batches[n]
        IN (IsMulti(b) /\ b.st = "done" /\ PairsOf(b.input) = <<>>)
           => /\ Concat(b.children) = <<>>
              /\ b.res.allowed
              /\ b.res.message \in {"All roles granted", "All permissions granted"}
              /\ DOMAIN b.res.results
                 = {b.input[g].resourceType : g \in 1..Len(b.input)} \ {"__proto__"}
              /\ \A t \in DOMAIN b.res.results : DOMAIN b.res.results[t] = {}

\* C15 witness: hasMultipleRoles over { project: [], "__proto__": [] } returned
\* allowed=true with results { project: {} } and without a check.
C15_Witness ==
    \E n \in BatchIds :
        LET b == batches[n]
        IN /\ b.op = "hasMultipleRoles" /\ b.st = "done"
           /\ Len(b.input) = 2 /\ b.input[1].items = <<>> /\ b.input[2].items = <<>>
           /\ Concat(b.children) = <<>>
           /\ b.res.allowed
           /\ DOMAIN b.res.results = {"project"}
           /\ DOMAIN b.res.results["project"] = {}

\* Every check of a call that enters is issued in the step in which the call
\* enters, before its first wait.
ChecksIssuedOnEntry ==
    \A n \in 1..Len(batches') :
        (n > Len(batches) /\ IsMulti(batches'[n]))
        => LET ids == Concat(batches'[n].children)
           IN /\ Len(ids) = Len(PairsOf(batches'[n].input))
              /\ \A k \in 1..Len(ids) :
                    /\ ids[k] = Len(calls) + k
                    /\ ids[k] \in 1..Len(calls')
                    /\ calls'[ids[k]].st \in {"await", "done", "raised"}

\* A call that has returned a result has no check that has not returned.
ReturnedAfterEveryCheck ==
    \A n \in BatchIds :
        LET b == batches[n]
            ids == Concat(b.children)
        IN (IsMulti(b) /\ b.st = "done")
           => \A k \in 1..Len(ids) : calls[ids[k]].st = "done"

FixedResult(req) ==
    IF ~Registered(req)
    THEN Result(FALSE, UnknownResourceMsg(req.resourceType))
    ELSE IF req.op = "hasRole"
    THEN IF ~IsRoleOf(req)
         THEN Result(FALSE, UnknownRoleMsg(req.name, req.resourceType))
         ELSE LET held == KnownAs(req, req.name, TRUE)
              IN Result(held, RoleMsg(held, req.name, req.resourceType))
    ELSE IF ~Declared(req)
         THEN Result(FALSE, UnknownActionMsg(req.name, req.resourceType))
         ELSE LET granting == Granting(req)
                  held == \E i \in 1..Len(granting) : KnownAs(req, granting[i], TRUE)
              IN Result(held, ActionMsg(held, req.name, req.resourceType))

\* C17: with conditions that are fixed functions of (userId, resourceId), what
\* hasMultipleRoles, hasMultiplePermissions and hasPermissions return (allowed,
\* message, results, per-name results) is a function of the input and of the
\* conditions' answers alone: the order in which the sibling checks resume
\* does not enter it, with caching enabled or disabled.
C17_ResultIndependentOfInterleaving ==
    \A n \in BatchIds :
        LET b == batches[n]
            fixed == [k \in CallIds |-> [calls[k] EXCEPT !.res = FixedResult(calls[k].req)]]
        IN b.st = "done" => b.res = AggregateResult(b, fixed)

\* C17 witness: with caching enabled, a hasMultipleRoles call over two roles
\* has returned after its second check resumed and returned strictly before
\* its first one did.
C17_Witness ==
    \E n \in BatchIds :
        LET b == batches[n]
            ids == Concat(b.children)
        IN /\ b.op = "hasMultipleRoles" /\ b.st = "done"
           /\ cachingEnabled
           /\ Len(ids) = 2
           /\ \A k \in 1..2 : calls[ids[k]].i > 0 /\ calls[ids[k]].stored
           /\ calls[ids[2]].storedAt < calls[ids[1]].storedAt

\* The entries of a hasPermissions call that has returned, by position.
IsNamed(b) == b.op = "hasPermissions"
EntriesOf(b) == {g \in 1..Len(b.input) : b.input[g].key \in DOMAIN b.res}

\* C18: in the result of hasPermissions, an entry with a single action has the
\* allowed and the message of one hasPermission check and no results field,
\* and an entry with a non-empty actions sequence has a results map whose keys
\* are exactly the actions of the sequence.
C18_NamedResultShape ==
    \A n \in BatchIds :
        LET b == batches[n]
        IN (IsNamed(b) /\ b.st = "done")
           => \A g \in EntriesOf(b) :
                 LET e == b.input[g]
                     r == b.res[e.key]
                     ids == b.children[g]
                 IN IF Truthy(e.action)
                    THEN /\ Len(ids) = 1
                         /\ calls[ids[1]].req.op = "hasPermission"
                         /\ calls[ids[1]].req.name = e.action[1]
                         /\ r = [allowed |-> calls[ids[1]].res.allowed,
                                 message |-> calls[ids[1]].res.message]
                    ELSE Len(e.actions) > 0
                         => /\ "results" \in DOMAIN r
                            /\ DOMAIN r.results = {e.actions[k] : k \in 1..Len(e.actions)}

\* C19: for an entry of hasPermissions with a non-empty actions sequence, one
\* hasPermission check is issued per element, the entry's allowed is the AND
\* of their results, each action of results maps to the allowed value of its
\* own check, and the message names exactly the denied actions when
\* allowed=false.
C19_NamedMultiActionEntry ==
    \A n \in BatchIds :
        LET b == batches[n]
        IN (IsNamed(b) /\ b.st = "done")
           => \A g \in EntriesOf(b) :
                 LET e == b.input[g]
                     r == b.res[e.key]
                     ids == b.children[g]
                     isDenied(id) == ~calls[id].res.allowed
                     deniedIds == SelectSeq(ids, isDenied)
                 IN (~Truthy(e.action) /\ Len(e.actions) > 0)
                    => /\ Len(ids) = Len(e.actions)
                       /\ \A k \in 1..Len(ids) :
                             /\ calls[ids[k]].req.op = "hasPermission"
                             /\ calls[ids[k]].req.name = e.actions[k]
                             /\ calls[ids[k]].req.resourceType = e.resourceType
                       /\ r.allowed <=> \A k \in 1..Len(ids) : calls[ids[k]].res.allowed
                       /\ \A k \in 1..Len(ids) :
                             /\ e.actions[k] \in DOMAIN r.results
                             /\ r.results[e.actions[k]] = calls[ids[k]].res.allowed
                       /\ ~r.allowed
                          => r.message = "Some permissions denied for " \o e.resourceType
                                \o ": " \o Join([k \in 1..Len(deniedIds) |->
                                                    calls[deniedIds[k]].req.name])

\* C20: an entry of hasPermissions with neither an action nor a non-empty
\* actions sequence gets, under its own name, allowed=false with the message
\* "No action or actions specified"; no check is issued for it and the call
\* does not raise because of it; every sibling entry with an action gets the
\* result of its own check.
C20_MalformedEntryDeniedLocally ==
    \A n \in BatchIds :
        LET b == batches[n]
            malformed(e) == ~Truthy(e.action) /\ Len(e.actions) = 0
        IN IsNamed(b)
           => /\ \A g \in 1..Len(b.input) : malformed(b.input[g]) => b.children[g] = <<>>
              /\ b.st = "raised"
                 => \E g \in 1..Len(b.input) :
                       \E k \in 1..Len(b.children[g]) : calls[b.children[g][k]].st = "raised"
              /\ b.st = "done"
                 => \A g \in EntriesOf(b) :
                       LET e == b.input[g]
                           r == b.res[e.key]
                           ids == b.children[g]
                       IN /\ malformed(e)
                             => r = [allowed |-> FALSE,
                                     message |-> "No action or actions specified"]
                          /\ Truthy(e.action)
                             => /\ Len(ids) = 1
                                /\ calls[ids[1]].st = "done"
                                /\ r = [allowed |-> calls[ids[1]].res.allowed,
                                        message |-> calls[ids[1]].res.message]

\* C20 witness: hasPermissions over a first entry with action read and a second
\* entry with no action has returned: the second is denied with the message,
\* the first is allowed by its own check, which had waited for a condition.
C20_Witness ==
    \E n \in BatchIds :
        LET b == batches[n]
        IN /\ IsNamed(b) /\ b.st = "done"
           /\ Len(b.input) = 2
           /\ b.children[2] = <<>>
           /\ b.res["second"] = [allowed |-> FALSE,
                                 message |-> "No action or actions specified"]
           /\ Len(b.children[1]) = 1
           /\ calls[b.children[1][1]].i > 0
           /\ b.res["first"].allowed

\* C21: the mapping returned by hasPermissions has exactly the names of the
\* input checks as its keys, each mapped to the result of its own spec.
C21_NamedKeysAreTheInputKeys ==
    \A n \in BatchIds :
        LET b == batches[n]
        IN (IsNamed(b) /\ b.st = "done")
           => /\ DOMAIN b.res = {b.input[g].key : g \in 1..Len(b.input)}
              /\ \A g \in 1..Len(b.input) :
                    /\ b.input[g].key \in DOMAIN b.res
                    /\ b.res[b.input[g].key] = NamedResult(b.input[g], b.children[g], calls)

\* A condition invoked by the call threw.
ConditionRaised(c) == \E i \in 1..Len(c.trace) : c.trace[i].out = "raised"

\* C22: a hasRole or hasPermission call one of whose conditions raised has
\* failed: it returned no result and stored none; a hasMultipleRoles,
\* hasMultiplePermissions or hasPermissions call with such a check does not
\* return a result either.
C22_ConditionFailureIsNotMasked ==
    /\ \A n \in CallIds :
          ConditionRaised(calls[n])
          => /\ calls[n].st = "raised"
             /\ calls[n].res = NoResult
             /\ ~calls[n].stored
    /\ \A n \in BatchIds :
          LET ids == Concat(batches[n].children)
          IN (\E k \in 1..Len(ids) : ConditionRaised(calls[ids[k]]))
             => batches[n].st \in {"await", "raised"} /\ batches[n].res = <<>>

\* C22 witness: a hasMultipleRoles call has failed after the condition of one
\* of its checks raised, while another of its checks had returned allowed=true.
C22_Witness ==
    \E n \in BatchIds :
        LET b == batches[n]
            ids == Concat(b.children)
        IN /\ b.op = "hasMultipleRoles" /\ b.st = "raised"
           /\ \E k \in 1..Len(ids) : ConditionRaised(calls[ids[k]])
           /\ \E k \in 1..Len(ids) : calls[ids[k]].st = "done" /\ calls[ids[k]].res.allowed

\* C30: while a condition invoked for a check of a hasMultipleRoles,
\* hasMultiplePermissions or hasPermissions call has not completed, the call
\* has returned no result, whatever its other checks have done: nothing but
\* the completion of the condition ends the wait.
C30_HungConditionHangsTheAggregate ==
    \A n \in BatchIds :
        LET b == batches[n]
            ids == Concat(b.children)
        IN (\E k \in 1..Len(ids) : calls[ids[k]].st = "await")
           => b.st # "done" /\ b.res = <<>>

\* C30 witness: a hasPermissions call is still waiting although every check
\* but one has returned and that one waits for its condition.
C30_Witness ==
    \E n \in BatchIds :
        LET b == batches[n]
            ids == Concat(b.children)
        IN /\ IsNamed(b) /\ b.st = "await"
           /\ Len(ids) = 2
           /\ \E k \in 1..2 : /\ calls[ids[k]].st = "await"
                              /\ calls[ids[3 - k]].st = "done"
           /\ now > 0

\* C26: with caching enabled, every hasRole or hasPermission call that has
\* returned without a cache hit has stored its result under its own key, the
\* "unknown resource type", "unknown role", "unknown action" results and the
\* ordinary denials included; every entry of the cache is the result some such
\* call stored under that key; and a later identical call that begins less
\* than 300 seconds after a denial was stored, no other call having written
\* that key, is answered from the cache with that very denial.
C26_DenialsAreStoredAndServed ==
    cachingEnabled =>
        /\ \A n \in CallIds :
              (calls[n].st = "done" /\ ~calls[n].hit) => calls[n].stored
        /\ \A k \in DOMAIN cache :
              \E n \in CallIds :
                 /\ calls[n].key = k /\ calls[n].stored /\ ~calls[n].hit
                 /\ calls[n].storedAt = cache[k].at
                 /\ calls[n].res = cache[k].v
        /\ \A i, j \in CallIds :
              (/\ calls[j].req = calls[i].req
               /\ i \in calls[j].seen
               /\ calls[i].stored /\ ~calls[i].res.allowed
               /\ calls[j].t0 < calls[i].storedAt + 300
               /\ \A m \in CallIds \ {i} : calls[m].key = calls[i].key => ~calls[m].stored)
              => /\ calls[j].hit /\ calls[j].st = "done"
                 /\ calls[j].res = calls[i].res

\* C26 witness: a check of an unknown role stored its denial at time 0 and an
\* identical check that began 299 seconds later returned it from the cache.
C26_Witness ==
    \E i, j \in CallIds :
        /\ cachingEnabled
        /\ calls[i].req.op = "hasRole" /\ calls[i].req.name = "nobody"
        /\ calls[j].req = calls[i].req
        /\ i \in calls[j].seen
        /\ calls[i].stored /\ calls[i].storedAt = 0
        /\ calls[i].res = Result(FALSE, "Unknown role 'nobody' for resource 'project'")
        /\ calls[j].t0 = 299
        /\ calls[j].hit /\ calls[j].res = calls[i].res

\* The results an engine without a cache can return for a request, given the
\* answers the conditions have given so far: a condition not asked yet may
\* answer either way.
FixedResults(req) ==
    IF ~Registered(req)
    THEN {Result(FALSE, UnknownResourceMsg(req.resourceType))}
    ELSE IF req.op = "hasRole"
    THEN IF ~IsRoleOf(req)
         THEN {Result(FALSE, UnknownRoleMsg(req.name, req.resourceType))}
         ELSE {Result(held, RoleMsg(held, req.name, req.resourceType)) :
                  held \in Condition(req.resourceType, req.name, req.userId, req.resourceId)}
    ELSE IF ~Declared(req)
         THEN {Result(FALSE, UnknownActionMsg(req.name, req.resourceType))}
         ELSE LET granting == Granting(req)
                  some == \E i \in 1..Len(granting) : KnownAs(req, granting[i], TRUE)
                  none == \A i \in 1..Len(granting) : KnownAs(req, granting[i], FALSE)
              IN {Result(held, ActionMsg(held, req.name, req.resourceType)) :
                     held \in IF some THEN {TRUE} ELSE IF none THEN {FALSE} ELSE BOOLEAN}

\* C27: with conditions that are fixed functions of (userId, resourceId), every
\* hasRole and hasPermission call returns, with caching enabled, a result
\* (allowed and message) that the engine returns for it with caching disabled.
C27_CachedEngineAnswersAsUncached ==
    \A n \in CallIds :
        calls[n].st = "done" => calls[n].res \in FixedResults(calls[n].req)

\* C29: with caching enabled, a check of a hasMultipleRoles,
\* hasMultiplePermissions or hasPermissions call that is answered from the
\* cache is answered with an entry written by a call that is not one of its
\* sibling checks.
C29_NoCheckReadsASiblingsEntry ==
    cachingEnabled =>
        \A n \in BatchIds :
            LET ids == Concat(batches[n].children)
                siblings == {ids[k] : k \in 1..Len(ids)}
            IN \A j \in siblings :
                  calls[j].hit
                  => \E m \in calls[j].seen \ siblings :
                        calls[m].key = calls[j].key /\ calls[m].stored

\* No step changes the registry or the caching flag.
RegistryStepUnchanged == policies' = policies /\ cachingEnabled' = cachingEnabled

\* C24: the registry (resource types, their actions, their roles and the
\* roles' actions) is the one the engine was constructed with after any
\* sequence of hasRole, hasPermission, hasMultipleRoles, hasMultiplePermissions
\* and hasPermissions calls, and of the engine's fields those calls change
\* only the cache.
C24_CallsLeaveTheRegistryAlone ==
    [](policies = Policies) /\ [][RegistryStepUnchanged]_vars

\* C24 witness: an aggregate call over a registered and an unregistered
\* resource type has returned, its checks have written the cache, and the
\* registry is the one given to the constructor.
C24_Witness ==
    /\ policies = Policies
    /\ cache # EmptyCache
    /\ \E n \in BatchIds :
          /\ batches[n].st = "done"
          /\ \E g \in 1..Len(batches[n].input) : batches[n].input[g].resourceType = "ghost"

---------------------------------------------------------------------------
(* The module-level functions and the endpoints *)

\* Invocations made through has.ts, and through the endpoints.
InvocationsVia(via) == {n \in 1..Len(invocations) : invocations[n].via = via}

\* The functions and endpoints that hand back one check's answer.
Single == {"hasRole", "hasPermission"}

\* This step is a call of a has.ts function.
HasCalled ==
    /\ Len(invocations') = Len(invocations) + 1
    /\ invocations'[Len(invocations')].via = "has"

\* A has.ts function called without an engine fails with the error
\* "Policy engine not initialized" and evaluates nothing: no check is started,
\* no condition is asked, the cache is neither read nor written.  Called with
\* an engine it starts the engine's call.
HasCalledGuarded ==
    HasCalled =>
        LET inv == invocations'[Len(invocations')]
        IN IF policyEngineInstance = "null"
           THEN /\ inv.st = "threw"
                /\ inv.out = "Policy engine not initialized"
                /\ inv.target = <<>>
                /\ UNCHANGED <<calls, batches, cache, cacheReads, facts, policies>>
           ELSE /\ inv.st = "await"
                /\ inv.target # <<>>

\* A has.ts function returns only what the engine's call returned: the
\* allowed field for hasRole and hasPermission, the whole result for hasRoles
\* and hasPermissions.  It fails only without an engine or when the engine's
\* call failed.
HasReturnsTheDecision ==
    \A n \in InvocationsVia("has") :
        LET inv == invocations[n]
        IN /\ inv.st = "returned" =>
                /\ inv.target # <<>>
                /\ TargetOf(inv).st = "done"
                /\ IF inv.fn \in Single
                   THEN inv.out = TargetOf(inv).res.allowed
                   ELSE inv.out = TargetOf(inv).res
           /\ inv.st = "threw" =>
                IF inv.target = <<>>
                THEN inv.out = "Policy engine not initialized"
                ELSE TargetOf(inv).st = "raised"

\* C23: when no engine has been initialized, each of the module-level
\* functions hasRole, hasRoles, hasPermission and hasPermissions fails with a
\* "Policy engine not initialized" error before evaluating anything and never
\* returns false or allowed = false in that state; once an engine is
\* initialized they return exactly the engine's decision.
C23_HasFunctionsNeedAnEngine ==
    []HasReturnsTheDecision /\ [][HasCalledGuarded]_vars

\* C23 witness: one has.ts call made before initialization has failed with
\* "Policy engine not initialized", and a later one, made with an engine,
\* has returned true, the engine's decision.
C23_Witness ==
    \E m, n \in InvocationsVia("has") :
        /\ m < n
        /\ invocations[m].st = "threw"
        /\ invocations[m].target = <<>>
        /\ invocations[n].st = "returned"
        /\ invocations[n].fn \in Single
        /\ invocations[n].out = TRUE
        /\ TargetOf(invocations[n]).res.allowed

\* An endpoint's answer to a request whose engine call returned: status 200
\* and the engine's result as the body.
EndpointSucceeds(inv) ==
    /\ inv.out.status = 200
    /\ inv.out.body = TargetOf(inv).res

\* C28 as stated: each endpoint answers with status 500 only when no engine
\* is initialized; in every other case it answers with status 200 and a body
\* whose allowed field is the engine's decision for the session's user.
C28_FaultOnlyWithoutEngine ==
    \A n \in InvocationsVia("endpoint") :
        LET inv == invocations[n]
        IN inv.st = "responded" =>
             IF inv.target = <<>>
             THEN inv.out.status = 500
             ELSE /\ inv.out.status = 200
                  /\ TargetOf(inv).st = "done"
                  /\ inv.out.body.allowed = TargetOf(inv).res.allowed

\* C28 amended: an endpoint answers with status 500 exactly when no engine is
\* initialized or the engine's call fails (a condition raises, or the lookup
\* of a resource type named like an inherited key throws), the body being
\* allowed = false with "Internal server error" in the second case; in every
\* other case it answers with status 200 and the engine's result for the
\* session's user.  ZanzibarPlugin initializes an engine before its endpoints
\* exist, so no endpoint is ever reached without an engine.
C28_FaultWhenTheEngineCallFails ==
    /\ PluginCreated => policyEngineInstance = "engine"
    /\ \A n \in InvocationsVia("endpoint") :
          LET inv == invocations[n]
          IN /\ inv.target # <<>>
             /\ inv.st = "responded" =>
                  IF TargetOf(inv).st = "raised"
                  THEN /\ inv.out.status = 500
                       /\ inv.out.body = [allowed |-> FALSE,
                                          message |-> "Internal server error"]
                  ELSE EndpointSucceeds(inv)

\* C28 witness: one endpoint has answered 500 "Internal server error" with
\* an engine initialized, because the engine's call failed, and another has
\* answered 200 with allowed = true.
C28_Witness ==
    \E m, n \in InvocationsVia("endpoint") :
        /\ invocations[m].st = "responded"
        /\ invocations[m].out.status = 500
        /\ TargetOf(invocations[m]).st = "raised"
        /\ invocations[n].st = "responded"
        /\ invocations[n].out.status = 200
        /\ invocations[n].out.body.allowed

---------------------------------------------------------------------------
(* Conditions that ask for a role on the resource above *)

\* The role checks on the owner role of a file the store holds.
FileOwnerChecks ==
    {n \in CallIds : /\ calls[n].req.op = "hasRole"
                     /\ calls[n].req.resourceType = "file"
                     /\ calls[n].req.name = "owner"
                     /\ getFolderById(getFileById(calls[n].req.resourceId)) # Undefined}

\* What the project-level owner predicate has answered for the user of role
\* check n and the project above its file.
ProjectOwnerFact(n) ==
    Fact("project", "owner", calls[n].req.userId,
         getFolderById(getFileById(calls[n].req.resourceId)))

\* A role check on a file's owner role never fails, and once returned its
\* allowed is the boolean the project-level owner predicate gave.
FileOwnerIsProjectOwner ==
    \A n \in FileOwnerChecks :
        /\ calls[n].st # "raised"
        /\ calls[n].st = "done" =>
              /\ ProjectOwnerFact(n) \in DOMAIN facts
              /\ calls[n].res.allowed = facts[ProjectOwnerFact(n)]

\* C25: with file.owner asking for folder owner of the file's folder and
\* folder.owner asking for project owner of the folder's project, a role
\* check (file, owner, u, fileId) terminates and returns allowed equal to the
\* boolean of the project-level owner predicate for (u, projectId), with
\* caching enabled or disabled.
C25_FileOwnerResolvesToProjectOwner ==
    /\ []FileOwnerIsProjectOwner
    /\ \A n \in 1..(3 * MaxCalls) :
          (n \in FileOwnerChecks) ~> (n \in FileOwnerChecks /\ calls[n].st = "done")

\* C25 witness: with caching enabled, a role check on a file's owner role
\* has returned allowed = true after its condition asked for folder owner,
\* whose condition asked for project owner, whose predicate answered true;
\* each of the three stored its result.
C25_Witness ==
    \E n \in FileOwnerChecks :
        LET c == calls[n]
        IN /\ cachingEnabled
           /\ c.st = "done"
           /\ c.res.allowed
           /\ c.stored
           /\ c.waitsFor # 0
           /\ calls[c.waitsFor].req.resourceType = "folder"
           /\ calls[c.waitsFor].stored
           /\ calls[c.waitsFor].waitsFor # 0
           /\ calls[calls[c.waitsFor].waitsFor].req.resourceType = "project"
           /\ calls[calls[c.waitsFor].waitsFor].stored

---------------------------------------------------------------------------
(* Conditions configured in a cycle *)

\* The role checks on the cyclic registry.
RingChecks == {n \in CallIds : calls[n].req.resourceType = "ring"}

\* C31 as stated: with role "a" asking for role "b" and role "b" asking for
\* role "a" on the same arguments, a role check on "a" never completes, with
\* caching enabled as well as disabled.
C31_CyclicCheckNeverSettles ==
    \A n \in RingChecks : calls[n].st = "await"

\* C31 amended: with the two roles configured in a cycle, a role check on
\* either never returns a decision and nothing is ever stored in the cache,
\* with caching enabled as well as disabled: the check either never settles
\* (conditions that suspend before they call the engine) or fails once the
\* call stack is exhausted (conditions that call the engine directly); the
\* engine has no recursion-depth guard and stores a result only after the
\* condition has returned.
C31_CyclicCheckNeverReturns ==
    /\ cache = EmptyCache
    /\ \A n \in RingChecks :
          /\ calls[n].st # "done"
          /\ ~calls[n].hit
          /\ ~calls[n].stored
          /\ calls[n].st = "await" /\ Depth(n) < MaxDepth /\ calls[n].waitsFor # 0 =>
                /\ calls[calls[n].waitsFor].req.name # calls[n].req.name
                /\ calls[calls[n].waitsFor].req.userId = calls[n].req.userId
                /\ calls[calls[n].waitsFor].req.resourceId = calls[n].req.resourceId

\* C31 witness: with caching enabled, a role check on "a" made by a caller
\* has failed after the checks nested below it, "b", "a", "b", each missed
\* the cache and the innermost ran out of stack.
C31_Witness ==
    \E n \in RingChecks \cap Issued :
        /\ cachingEnabled
        /\ calls[n].req.name = "a"
        /\ calls[n].st = "raised"
        /\ calls[n].waitsFor # 0
        /\ \E m \in RingChecks :
              /\ Depth(m) = MaxDepth
              /\ calls[m].req.name = "b"
              /\ calls[m].st = "raised"

---------------------------------------------------------------------------
(* The registry is supplied once *)

\* The ZanzibarPlugin calls made so far, in order.
PluginCalls == {n \in 1..Len(invocations) : invocations[n].fn = "ZanzibarPlugin"}

\* The arguments of the first ZanzibarPlugin call.
FirstPluginCall == invocations[CHOOSE n \in PluginCalls : \A m \in PluginCalls : n <= m].out

\* This step is a ZanzibarPlugin call with an engine in place.
PluginCalledAgain ==
    /\ policyEngineInstance = "engine"
    /\ Len(invocations') = Len(invocations) + 1
    /\ invocations'[Len(invocations')].fn = "ZanzibarPlugin"

\* The engine holds what the first call gave it, an omitted flag meaning
\* caching disabled.
EngineOfFirstPluginCall ==
    IF PluginCalls = {}
    THEN policyEngineInstance = "null"
    ELSE /\ policyEngineInstance = "engine"
         /\ policies = FirstPluginCall.policies
         /\ cachingEnabled = IF FirstPluginCall.cachingEnabled = Undefined
                             THEN FALSE
                             ELSE FirstPluginCall.cachingEnabled[1]

\* C32: the registry is supplied to the engine once: after any sequence of
\* ZanzibarPlugin(policies, cachingEnabled) calls, with no direct
\* initializePolicyEngine call, the global engine holds the policies and
\* caching flag of the first call, later calls leave the engine and its
\* cache unchanged, and a call that omits cachingEnabled creates an engine
\* with caching disabled.
C32_RegistrySuppliedOnce ==
    /\ []EngineOfFirstPluginCall
    /\ [][PluginCalledAgain =>
            UNCHANGED <<policyEngineInstance, policies, cachingEnabled, cache>>]_vars

\* C32 witness: the first call omitted the flag and gave the first registry,
\* a check through an endpoint has returned, and a second call has given the
\* other registry with caching enabled: the engine still has the first
\* registry and caching disabled.
C32_Witness ==
    /\ Cardinality(PluginCalls) = 2
    /\ FirstPluginCall = Setup("ZanzibarPlugin", Policies, <<>>)
    /\ \E n \in PluginCalls :
          invocations[n].out = Setup("ZanzibarPlugin", QuickStartPolicies, <<TRUE>>)
    /\ \E n \in InvocationsVia("endpoint") :
          /\ invocations[n].st = "responded"
          /\ n < CHOOSE m \in PluginCalls : \A k \in PluginCalls : k <= m
    /\ policies = Policies
    /\ ~cachingEnabled

---------------------------------------------------------------------------
(* Named checks that give both action and actions *)

\* C33: for an entry of hasPermissions whose spec sets both a non-empty
\* action and actions, only the single action is evaluated: exactly one
\* hasPermission check is made, for that action, the entry's result has no
\* results field, and no check is made for an element of actions; an entry
\* whose action is the empty string is treated as if action were absent.
C33_ActionTakesPrecedence ==
    \A n \in BatchIds :
        LET b == batches[n]
        IN IsNamed(b) =>
             \A g \in 1..Len(b.input) :
                LET e == b.input[g]
                    ids == b.children[g]
                IN /\ (e.action \notin {Undefined, Str("")} /\ Len(e.actions) > 0) =>
                        /\ Len(ids) = 1
                        /\ calls[ids[1]].req =
                             Req("hasPermission", e.resourceType, e.action[1],
                                 b.userId, e.resourceId)
                        /\ (b.st = "done" /\ e.key \in DOMAIN b.res) =>
                              /\ DOMAIN b.res[e.key] = {"allowed", "message"}
                              /\ b.res[e.key].allowed = calls[ids[1]].res.allowed
                   /\ e.action = Str("") =>
                        /\ Len(ids) = Len(e.actions)
                        /\ \A k \in 1..Len(ids) :
                              calls[ids[k]].req =
                                Req("hasPermission", e.resourceType, e.actions[k],
                                    b.userId, e.resourceId)
                        /\ (b.st = "done" /\ e.key \in DOMAIN b.res) =>
                              b.res[e.key] =
                                NamedResult([e EXCEPT !.action = Undefined], ids, calls)

\* C33 witness: hasPermissions has returned for an entry with action "write"
\* and actions <<"read">>: its one check was for "write" and its result has
\* no results field.
C33_Witness ==
    \E n \in BatchIds :
        /\ IsNamed(batches[n])
        /\ batches[n].st = "done"
        /\ \E g \in 1..Len(batches[n].input) :
              /\ batches[n].input[g].action = Str("write")
              /\ batches[n].input[g].actions = <<"read">>
              /\ calls[batches[n].children[g][1]].req.name = "write"
              /\ "results" \notin DOMAIN batches[n].res[batches[n].input[g].key]

---------------------------------------------------------------------------
(* Permissions and roles *)

\* The decisions a role check made in this state can return: the cached one
\* if the cache answers, else whatever the role's condition answers.
RoleCheckNow(resourceType, roleName, userId, resourceId) ==
    LET c == HasRoleEnter(Req("hasRole", resourceType, roleName, userId, resourceId),
                          cache, calls)[1]
    IN IF c.st = "done" THEN {c.res.allowed}
       ELSE IF c.st = "raised" THEN {}
       ELSE Condition(resourceType, roleName, userId, resourceId)

\* Some role of the request's resource that grants its action has a role
\* check that returns allowed = true if made in this state.
SomeGrantingRoleChecksTrue(q) ==
    \E i \in 1..Len(Granting(q)) :
        RoleCheckNow(q.resourceType, Granting(q)[i], q.userId, q.resourceId) = {TRUE}

\* Call n returns in this step.
ReturnsNow(n) ==
    /\ n \in 1..Len(calls')
    /\ calls'[n].st = "done"
    /\ n > Len(calls) \/ calls[n].st = "await"

\* C34: permissions are always derivable from roles: with caching enabled and
\* conditions allowed to change between calls, whenever a hasPermission check
\* returns allowed = true, some role of the resource that grants the action
\* has a hasRole check returning allowed = true when called immediately
\* afterwards.
C34_PermissionDerivableFromRoles ==
    [][\A q \in requests :
          (/\ q.op = "hasPermission"
           /\ \E n \in 1..Len(calls') :
                 /\ ReturnsNow(n)
                 /\ calls'[n].req = q
                 /\ calls'[n].res.allowed)
          => SomeGrantingRoleChecksTrue(q)']_vars

---------------------------------------------------------------------------
(* Identical checks that overlap *)

\* Call n has invoked a condition.
Invoked(n) == calls[n].trace # <<>>

\* C35: with caching enabled, the condition behind a cache key is invoked at
\* most once per TTL window even when identical checks overlap: of two
\* hasRole checks with the same key that both invoke the condition, the
\* earlier had failed or had stored its result before the later began, and
\* the later began after that entry expired.
C35_ConditionInvokedOncePerWindow ==
    cachingEnabled =>
      \A m, n \in CallIds :
         (/\ m < n
          /\ calls[m].req.op = "hasRole"
          /\ calls[n].req.op = "hasRole"
          /\ calls[m].key = calls[n].key
          /\ Invoked(m)
          /\ Invoked(n))
         => /\ m \in calls[n].seen
            /\ \/ calls[m].st = "raised"
               \/ /\ calls[m].stored
                  /\ calls[n].t0 > calls[m].storedAt + stdTTL

\* Call n, suspended on a condition, returns in this step and stores its
\* result.
StoresNow(n) ==
    /\ n \in CallIds
    /\ calls[n].st = "await"
    /\ calls'[n].st = "done"
    /\ calls'[n].stored

\* C36: with caching enabled and overlapping identical checks, a cache entry
\* is never overwritten by the result of an evaluation whose condition was
\* invoked earlier than the invocation that produced the entry currently
\* stored: no check stores its result over the live entry of a check with
\* the same key that began after it.
C36_EntryIsOfTheLatestStartedEvaluation ==
    [][\A n \in CallIds :
          StoresNow(n) =>
             ~ \E m \in CallIds :
                  /\ m > n
                  /\ calls[m].key = calls[n].key
                  /\ Invoked(m)
                  /\ calls[m].st = "done"
                  /\ calls[m].stored
                  /\ CacheLive(cache, calls[m].key)]_vars

---------------------------------------------------------------------------
(* What a check writes *)

\* Call n is entered or resumed in this step.
Acts(n) ==
    /\ n \in 1..Len(calls')
    /\ n > Len(calls) \/ calls'[n] # calls[n]

\* The cache entries other than the one under key are as they were.
OtherEntriesUnchanged(key) ==
    \A k \in (DOMAIN cache \cup DOMAIN cache') \ {key} :
        /\ k \in DOMAIN cache
        /\ k \in DOMAIN cache'
        /\ cache'[k] = cache[k]

\* The hasRole keys of the roles of the resource of request q.
RoleKeysOf(q) ==
    IF q.resourceType \in DOMAIN policies
    THEN {hasRoleKey(q.resourceType, policies[q.resourceType].roles[i].name,
                     q.userId, q.resourceId) :
            i \in 1..Len(policies[q.resourceType].roles)}
    ELSE {}

\* C37: a hasRole or hasPermission check whose conditions make no nested
\* engine call writes at most one cache entry, under the key of its own
\* tuple, and leaves every other cache entry unchanged; in particular
\* hasPermission stores no hasRole entries for the role conditions it
\* evaluated, and a check that hits the cache writes nothing.
C37_CheckWritesOnlyItsOwnEntry ==
    [][\A n \in 1..Len(calls') :
          Acts(n) =>
             /\ OtherEntriesUnchanged(calls'[n].key)
             /\ calls'[n].req.op = "hasPermission" =>
                   \A k \in RoleKeysOf(calls'[n].req) :
                       k \in DOMAIN cache' => (k \in DOMAIN cache /\ cache'[k] = cache[k])
             /\ (n > Len(calls) /\ calls'[n].hit) => cache' = cache
             /\ calls'[n].st # "done" => (DOMAIN cache' \subseteq DOMAIN cache)]_vars

\* C37 witness: with another check's expired entry in the cache, a
\* hasPermission check has evaluated a role's condition, returned and stored
\* its result under its own key; the other entry is still there and no
\* hasRole entry exists.
C37_Witness ==
    \E n \in CallIds :
        /\ calls[n].req.op = "hasPermission"
        /\ Invoked(n)
        /\ calls[n].st = "done"
        /\ calls[n].key \in DOMAIN cache
        /\ RoleKeysOf(calls[n].req) \cap DOMAIN cache = {}
        /\ \E k \in DOMAIN cache : k # calls[n].key /\ Expired(cache[k], now)

---------------------------------------------------------------------------
(* A condition that raises, and the checks dispatched beside it *)

\* Call n fails in this step.
RaisesNow(n) == calls[n].st = "await" /\ calls'[n].st = "raised"

\* Call k was still waiting for its condition when its aggregate call failed.
LeftBehind(k) ==
    \E b \in BatchIds : batches[b].st = "raised" /\ k \in batches[b].left

\* C38: a check whose condition raises writes no cache entry, so that an
\* identical check begun after the failure evaluates the condition again
\* unless some other check has stored a result under the key; and a check of
\* a batch that is still waiting when the aggregate call fails is left as it
\* was by the failure, and when its condition resolves it returns and stores
\* its own result as it would have done otherwise.
C38_RaiseWritesNothingSiblingsStore ==
    /\ [][\A n \in CallIds : RaisesNow(n) => (cache' = cache /\ ~calls'[n].stored)]_vars
    /\ [](\A n \in CallIds : \A m \in CallIds :
             ( /\ calls[n].st = "raised"
               /\ n \in calls[m].seen
               /\ calls[m].key = calls[n].key
               /\ ~Invoked(m) )
             => \E k \in CallIds \ {n, m} :
                   calls[k].key = calls[n].key /\ calls[k].stored)
    /\ [][\A b \in BatchIds :
             (batches[b].st = "await" /\ batches'[b].st = "raised")
             => (calls' = calls /\ cache' = cache)]_vars
    /\ [][\A k \in CallIds :
             (LeftBehind(k) /\ calls[k].st = "await" /\ calls'[k].st = "done")
             => /\ calls'[k].stored = cachingEnabled
                /\ cachingEnabled =>
                     /\ calls[k].key \in DOMAIN cache'
                     /\ cache'[calls[k].key].v = calls'[k].res
                     /\ cache'[calls[k].key].by = calls[k].req]_vars

\* C38 witness: with caching enabled, one check of a hasMultipleRoles call
\* has failed, the aggregate call has failed while another of its checks was
\* still waiting, and that check has since returned and stored its result;
\* nothing is cached under the key of the failed check.
C38_Witness ==
    /\ cachingEnabled
    /\ \E b \in BatchIds :
         /\ batches[b].st = "raised"
         /\ \E k \in batches[b].left :
              /\ calls[k].st = "done"
              /\ calls[k].stored
              /\ calls[k].key \in DOMAIN cache
         /\ \E n \in CallIds :
              /\ calls[n].st = "raised"
              /\ calls[n].key \notin DOMAIN cache

---------------------------------------------------------------------------
(* Replacing the engine *)

\* initializePolicyEngine returns in this step.
InitializesNow ==
    /\ policyEngineInstance' = "engine"
    /\ policyEngineInstance = "null" \/ Len(retired') > Len(retired)

\* The names of the roles of registry p that grant what req asks for, in
\* registry order.
GrantingUnder(p, req) ==
    LET keep(role) == GrantsAction(role, req.name)
        kept == SelectSeq(p[req.resourceType].roles, keep)
    IN [i \in 1..Len(kept) |-> kept[i].name]

\* C39: initializePolicyEngine replaces the global engine, whether or not
\* there was one, by an engine with the given policies, the given caching
\* flag (enabled when omitted) and an empty cache; every entry of the global
\* engine's cache was stored by a check begun on that engine, so no check made
\* through the global instance is answered from a result cached under an
\* earlier engine; and a check in flight on a replaced engine goes through
\* the roles of the old policies, leaves the new engine's cache alone and
\* stores its result in the old engine's cache, if that engine caches.
C39_InitializeReplacesEngine ==
    /\ [][InitializesNow =>
             /\ \E a \in {q \in requests : q.op = "initializePolicyEngine"} :
                   /\ policies' = a.policies
                   /\ cachingEnabled' = (a.cachingEnabled = Undefined \/ a.cachingEnabled = <<TRUE>>)
             /\ cache' = EmptyCache
             /\ policyEngineInstance = "engine" =>
                   retired' = Append(retired, [policies |-> policies,
                                               cachingEnabled |-> cachingEnabled,
                                               cache |-> cache])]_vars
    /\ [](\A key \in DOMAIN cache :
             \E k \in CallIds :
                /\ Current(calls[k])
                /\ calls[k].key = key
                /\ calls[k].stored
                /\ calls[k].res = cache[key].v)
    /\ [](\A m \in CallIds :
             calls[m].hit =>
                \E k \in 1..(m - 1) :
                   /\ calls[k].engine = calls[m].engine
                   /\ calls[k].key = calls[m].key
                   /\ calls[k].stored
                   /\ calls[k].res = calls[m].res)
    /\ [][\A n \in CallIds :
             (~Current(calls[n]) /\ calls'[n] # calls[n]) =>
                LET old == retired[calls[n].engine]
                IN /\ cache' = cache
                   /\ policies' = policies
                   /\ calls[n].req.op = "hasPermission" =>
                         IsPrefix(InvokedRoles(calls'[n]),
                                  GrantingUnder(old.policies, calls[n].req))
                   /\ calls'[n].st = "done" =>
                         /\ calls'[n].stored = old.cachingEnabled
                         /\ old.cachingEnabled =>
                               /\ calls[n].key \in DOMAIN retired'[calls[n].engine].cache
                               /\ retired'[calls[n].engine].cache[calls[n].key].v
                                     = calls'[n].res]_vars

\* C39 witness: a hasPermission check begun on a caching engine was still
\* waiting when initializePolicyEngine replaced the engine by one with other
\* policies, and when an identical check began on the new engine; it has gone
\* on to the next role of the old policies, returned and stored its result in
\* the old engine's cache, while the new engine's cache holds only the result
\* of the later check.
C39_Witness ==
    /\ Len(retired) = 1
    /\ policies # retired[1].policies
    /\ \E n \in CallIds : \E m \in CallIds :
         /\ calls[n].engine = 1
         /\ calls[m].engine = 2
         /\ calls[m].key = calls[n].key
         /\ n \notin calls[m].seen
         /\ calls[n].req.op = "hasPermission"
         /\ InvokedRoles(calls[n]) = <<"owner", "viewer">>
         /\ calls[n].st = "done"
         /\ calls[n].stored
         /\ calls[n].key \in DOMAIN retired[1].cache
         /\ calls[m].st = "done"
         /\ ~calls[m].hit
         /\ calls[m].stored
         /\ cache[calls[m].key].v = calls[m].res

=============================================================================
